---- MODULE Spec2Model ----
(***************************************************************************)
(* The credential vault core of api-vault (core/database.go): the          *)
(* credentials and rotations tables behind one Database handle, the        *)
(* field-level cipher, and the store operations AddCredential,             *)
(* AddCredentialV2, GetCredential, GetCredentialV2, ListCredentials,       *)
(* DeleteCredential, RotateCredential, GetRotationHistory and Close; the   *)
(* opening of a vault file (NewDatabase, migrateV2, loadOrCreateSalt); the *)
(* reader/writer lock d.mu; the rotate command (cmd/rotate.go); the plugin *)
(* registry (rotation/rotation.go); and the two terminal programs, the     *)
(* setup wizard (cmd/setup.go) and the interactive list.                   *)
(*                                                                         *)
(* Spec and SpecClosing take each handler as one atomic action, SpecLock   *)
(* splits a handler at its lock and unlock, SpecRotateLock and SpecRotate  *)
(* run the rotate command step by step, beside another goroutine and       *)
(* alone, SpecOpen opens and closes the vault file, SpecClose runs Close   *)
(* byte by byte beside a reader, SpecRegistry runs Register, Get and List  *)
(* from two goroutines, SpecAudit runs the store over several rotations,   *)
(* SpecSetup and SpecList feed key events to the wizard and to the list.   *)
(* A Go pointer and a nullable SQL column are modelled as a sequence of    *)
(* length 0 (nil / NULL) or 1 (the value).                                 *)
(***************************************************************************)
EXTENDS Integers, Sequences, FiniteSets, TLC

\* ------------------------------------------------------------------ bounds

\* The wall clock (time.Now().Unix()) runs over 1..MaxClock.
MaxClock == 2

\* The rotations table holds at most MaxRotations rows.
MaxRotations == 1

\* The rotations table of SpecAudit holds at most MaxHistory rows.
MaxHistory == 2

\* A text typed into a terminal program is at most MaxInput characters long.
MaxInput == 1

\* The interactive list opens its wizard at most MaxWizards times.
MaxWizards == 1

\* ------------------------------------------------------- program constants

argonKeyLen == 32
saltLen == 16
nonceLen == 12

\* ------------------------------------------------------------ value shapes

Nil == <<>>
Some(x) == <<x>>

\* Sentinel errors and the other errors the handlers return.
NoError == "nil"
ErrNotFound == "credential not found"
ErrDuplicate == "credential already exists"
ErrDecryptFail == "decryption failed"
ErrNameRequired == "name is required"
ErrKeyRequired == "at least one of secret or public key is required"
ErrClosed == "sql: database is closed"
ErrForeignKey == "FOREIGN KEY constraint failed"
ErrStore == "storage fault"

\* Names of stored credentials, in the order of SQLite's BINARY collation.
NameOrder == <<"a", "b">>
Names == {NameOrder[i] : i \in 1..Len(NameOrder)}

\* ---------------------------------------------------------------- strings

\* The bytes that occur in names, in ascending order.
UpperCase == "ABCDEFGHIJKLMNOPQRSTUVWXYZ"
LowerCase == "abcdefghijklmnopqrstuvwxyz"
ByteOrder == "-0123456789" \o UpperCase \o "_" \o LowerCase

CharAt(s, i) == SubSeq(s, i, i)
ByteOf(c) == CHOOSE i \in 1..Len(ByteOrder) : CharAt(ByteOrder, i) = c

\* The BINARY collation (memcmp): s sorts before t.
RECURSIVE Before(_, _)
Before(s, t) ==
    IF Len(t) = 0 THEN FALSE
    ELSE IF Len(s) = 0 THEN TRUE
    ELSE \/ ByteOf(CharAt(s, 1)) < ByteOf(CharAt(t, 1))
         \/ /\ CharAt(s, 1) = CharAt(t, 1)
            /\ Before(SubSeq(s, 2, Len(s)), SubSeq(t, 2, Len(t)))

\* strings.ToLower
ToLowerChar(c) ==
    IF \E i \in 1..Len(UpperCase) : CharAt(UpperCase, i) = c
    THEN CharAt(LowerCase, CHOOSE i \in 1..Len(UpperCase) : CharAt(UpperCase, i) = c)
    ELSE c

RECURSIVE ToLower(_)
ToLower(s) ==
    IF Len(s) = 0 THEN ""
    ELSE ToLowerChar(CharAt(s, 1)) \o ToLower(SubSeq(s, 2, Len(s)))

\* strings.Contains
Contains(s, sub) ==
    \E i \in 1..(Len(s) - Len(sub) + 1) : SubSeq(s, i, i + Len(sub) - 1) = sub

\* Nonces rand.Read can produce.
Nonces == {1}

\* ----------------------------------------------------------- cipher engine

MasterPassword == "correct-password"
WrongPassword == "wrong-password"
Passwords == {MasterPassword, WrongPassword}

\* The salts rand.Read can produce: saltLen equal bytes b, b in SaltBytes.
SaltBytes == {1, 2}
SaltOf(b) == [i \in 1..saltLen |-> b]
VaultSalt == SaltOf(1)

\* argon2.IDKey: a 32-byte key determined by password and salt, never zero;
\* different passwords or different salts give different keys.
deriveKey(password, salt) ==
    [i \in 1..argonKeyLen |->
        (IF password = MasterPassword THEN 10 ELSE 20) + salt[1]]

\* The key after Close has overwritten every byte.
ZeroKey == [i \in 1..argonKeyLen |-> 0]

\* gcm.Seal(nonce, nonce, plaintext, nil): the nonce bytes followed by the
\* ciphertext and tag, which only the same key and nonce open.
encryptWith(k, nonce, plaintext) ==
    [i \in 1..nonceLen |-> nonce] \o <<[key |-> k, nonce |-> nonce, pt |-> plaintext]>>

\* A seal under the zeroed key instead of d.key.
encryptZeroKey(k, nonce, plaintext) == encryptWith(ZeroKey, nonce, plaintext)

\* No seal at all: the bytes to store are the plaintext itself.
encryptNothing(k, nonce, plaintext) == <<plaintext>>

\* Database.encrypt
encrypt(k, nonce, plaintext) == encryptWith(k, nonce, plaintext)

\* An opening that authenticates nothing: whatever follows the nonce is
\* taken for the plaintext.
decryptUnauthenticated(k, data) ==
    IF Len(data) <= nonceLen THEN [err |-> ErrDecryptFail, plain |-> ""]
    ELSE [err |-> NoError, plain |-> data[nonceLen + 1].pt]

\* Database.decrypt: [err, plain]
decrypt(k, data) ==
    IF Len(data) < nonceLen THEN [err |-> ErrDecryptFail, plain |-> ""]
    ELSE LET nonce == SubSeq(data, 1, nonceLen)
             body == SubSeq(data, nonceLen + 1, Len(data))
         IN  IF /\ Len(body) = 1
                /\ body[1].key = k
                /\ nonce = [i \in 1..nonceLen |-> body[1].nonce]
             THEN [err |-> NoError, plain |-> body[1].pt]
             ELSE [err |-> ErrDecryptFail, plain |-> ""]

\* ----------------------------------------------------------------- JSON

\* json.Marshal of a []string: a nil slice is the text null.
MarshalFields(fields) ==
    IF fields = <<>> THEN [json |-> "null", items |-> <<>>]
    ELSE [json |-> "array", items |-> fields]

\* json.Unmarshal into a nil []string: null leaves it nil.
UnmarshalFields(text) == IF text.json = "array" THEN text.items ELSE <<>>

\* json.Marshal / json.Unmarshal of a map[string]string (a set of pairs).
MarshalMap(m) == [json |-> "object", members |-> m]
UnmarshalMap(text) == IF text.json = "object" THEN text.members ELSE {}

\* ------------------------------------------------------------- Credential

\* The zero Credential struct.
Credential ==
    [ID |-> 0, Name |-> "", APIType |-> "", Metadata |-> "",
     Environment |-> Nil, PublicKey |-> Nil, SecretKey |-> Nil, URL |-> Nil,
     Config |-> {}, KeyID |-> Nil, LastRotated |-> Nil,
     CreatedAt |-> 0, UpdatedAt |-> 0]

\* Credential.Validate
Validate(c) ==
    IF c.Name = "" THEN ErrNameRequired
    ELSE IF c.SecretKey = Nil /\ c.PublicKey = Nil THEN ErrKeyRequired
    ELSE NoError

HasSecret(c) == c.SecretKey # Nil /\ c.SecretKey[1] # ""
HasPublic(c) == c.PublicKey # Nil /\ c.PublicKey[1] # ""

\* The zero RotationResult struct.
RotationResult ==
    [NewSecretKey |-> Nil, NewPublicKey |-> Nil, NewURL |-> Nil,
     KeyID |-> "", Metadata |-> {}]

\* --------------------------------------------------------------- inputs

\* Credentials handed to AddCredentialV2: every field set, a public key
\* only, an empty secret string, no key at all, no name.
CredentialInputs ==
    { [Credential EXCEPT !.Name = "a", !.APIType = "supabase",
                         !.SecretKey = Some("sk-1"), !.PublicKey = Some("pk-1"),
                         !.URL = Some("https://u1"), !.Environment = Some("prod"),
                         !.Config = {<<"region", "us">>}, !.KeyID = Some("key-1")],
      [Credential EXCEPT !.Name = "a", !.APIType = "supabase",
                         !.PublicKey = Some("pk-1")],
      [Credential EXCEPT !.Name = "a", !.APIType = "openai", !.SecretKey = Some("")],
      [Credential EXCEPT !.Name = "a", !.APIType = "openai"],
      [Credential EXCEPT !.Name = "b", !.APIType = "openai",
                         !.SecretKey = Some("sk-1")],
      [Credential EXCEPT !.APIType = "openai", !.SecretKey = Some("sk-1")] }

\* Calls of AddCredential: <<name, apiKey, apiType>>.
AddInputs == { <<"a", "sk-1", "openai">>, <<"a", "", "openai">>,
               <<"b", "sk-1", "openai">> }

\* Calls of RotateCredential: the credential, the plugin and its outcome.
\* For a: the openai stub's outcome (secret, key id, metadata), an outcome
\* with all three fields, one whose secret is the empty string, and one that
\* sets nothing; for b: the openai stub's outcome.
StubMeta == {<<"stub", "true">>}
RotationInputs ==
    { [name |-> n, plugin |-> "openai",
       result |-> [RotationResult EXCEPT !.NewSecretKey = Some("sk-2"),
                                         !.KeyID = "key-2", !.Metadata = StubMeta]]
        : n \in Names }
    \cup
    { [name |-> "a", plugin |-> "supabase",
       result |-> [RotationResult EXCEPT !.NewSecretKey = Some("sk-2"),
                                         !.NewPublicKey = Some("pk-2"),
                                         !.NewURL = Some("https://u2"),
                                         !.KeyID = "key-2"]],
      [name |-> "a", plugin |-> "openai",
       result |-> [RotationResult EXCEPT !.NewSecretKey = Some("")]],
      [name |-> "a", plugin |-> "openai", result |-> RotationResult] }

Actors == {"cli"}

\* ---------------------------------------------------------------- state

VARIABLES
    credentials,   \* the credentials table: name -> row (name is UNIQUE)
    rotations,     \* the rotations table, rows in insertion (rowid) order
    key,           \* Database.key
    dbOpen,        \* whether Database.db is still open
    clock,         \* time.Now().Unix()
    last,          \* the last call that succeeded: [op, name]
    vaultPassword, \* the SQLCipher key of the vault file; Nil: no file yet
    columns,       \* the columns of the credentials table; {}: no table yet
    hasRotations,  \* whether the rotations table exists
    salt,          \* the value of the config row 'salt'; Nil: no row
    opened,        \* the last call of NewDatabase: [password, err]
    mu,            \* Database.mu: [writer, readers]
    callers,       \* each goroutine's call on the handle: [op, at]
    cmd,           \* the rotate command: its position and what it holds
    registry,      \* the global Registry: [plugins, mu]
    registered,    \* the plugins a call of Register has put into the registry
    regCalls,      \* each goroutine's call on the registry: [op, arg, at, out]
    tui            \* the terminal program: the interactiveModel and its setupModel

\* The persisted tables and the handle on them.
storeVars == <<credentials, rotations, key, dbOpen, clock, last>>

\* The rest of the vault file, and how the last open of it went.
fileVars == <<vaultPassword, columns, hasRotations, salt, opened>>

\* What lies outside the store handlers.
\* The plugin registry of package rotation.
aside == <<registry, registered, regCalls>>

\* The terminal programs of package cmd.
screen == <<tui>>

outsideStore == <<fileVars, mu, callers, cmd, aside, screen>>

vars == <<storeVars, outsideStore>>

\* Whether the connection enforces foreign keys.  SQLite does not unless the
\* connection asks for it, and the DSN NewDatabase opens carries _pragma_key
\* and nothing else.
foreignKeys == FALSE

\* The rows of both tables, as the statements of a transaction see them.
Tables(creds, rots) == [credentials |-> creds, rotations |-> rots]

\* newID: 16 random bytes, taken to differ from every id of the table.
newID(used) ==
    CHOOSE i \in 1..(Cardinality(used) + 1) :
        i \notin used /\ \A j \in 1..(i - 1) : j \in used

CredentialIDs(creds) == {creds[n].id : n \in DOMAIN creds}
RotationIDs(rots) == {rots[i].id : i \in 1..Len(rots)}

\* ------------------------------------------------------------ SQL statements

ErrUnique == "UNIQUE constraint failed: credentials.name"

isUniqueViolation(err) == err = ErrUnique

\* INSERT OR REPLACE INTO credentials: the row replaces one of the same name.
InsertOrReplaceCredential(creds, row) ==
    [err |-> NoError,
     rows |-> [n \in DOMAIN creds \cup {row.name} |->
                  IF n = row.name THEN row ELSE creds[n]]]

\* INSERT INTO credentials under the UNIQUE constraint on name.
InsertCredential(creds, row) ==
    IF row.name \in DOMAIN creds
    THEN [err |-> ErrUnique, rows |-> creds]
    ELSE [err |-> NoError,
          rows |-> [n \in DOMAIN creds \cup {row.name} |->
                       IF n = row.name THEN row ELSE creds[n]]]

\* UPDATE credentials SET col = val, updated_at = now, on every row.
UpdateEveryCredential(creds, name, col, val, now) ==
    [n \in DOMAIN creds |-> [creds[n] EXCEPT ![col] = val, !.updated_at = now]]

\* UPDATE credentials SET col = val WHERE name = name, updated_at left alone.
UpdateCredentialUnstamped(creds, name, col, val, now) ==
    [n \in DOMAIN creds |->
        IF n = name THEN [creds[n] EXCEPT ![col] = val] ELSE creds[n]]

\* UPDATE credentials SET col = val, updated_at = now WHERE name = name.
UpdateCredential(creds, name, col, val, now) ==
    [n \in DOMAIN creds |->
        IF n = name THEN [creds[n] EXCEPT ![col] = val, !.updated_at = now]
        ELSE creds[n]]

\* DELETE FROM credentials, on every row.
DeleteEveryCredential(creds, name) == [n \in {} |-> creds[n]]

\* DELETE FROM credentials WHERE name = name.
DeleteCredentialRow(creds, name) == [n \in DOMAIN creds \ {name} |-> creds[n]]

\* ON DELETE CASCADE of rotations.credential_name, when foreign keys are
\* enforced; without enforcement the clause does nothing.
CascadeDelete(rots, name, fk) ==
    IF fk THEN SelectSeq(rots, LAMBDA r : r.credential_name # name) ELSE rots

\* An insert that keeps one record per credential: the new record takes the
\* place of the credential's earlier ones.
InsertRotationReplacing(db, row, fk) ==
    [err |-> NoError,
     db |-> [db EXCEPT !.rotations =
                Append(SelectSeq(db.rotations,
                                 LAMBDA r : r.credential_name # row.credential_name),
                       row)]]

\* INSERT INTO rotations: the foreign key on credential_name is checked only
\* when foreign keys are enforced.
InsertRotation(db, row, fk) ==
    IF fk /\ row.credential_name \notin DOMAIN db.credentials
    THEN [err |-> ErrForeignKey, db |-> db]
    ELSE [err |-> NoError,
          db |-> [db EXCEPT !.rotations = Append(db.rotations, row)]]

\* One statement of a transaction: [err, db].
Exec(db, stmt, fk) ==
    IF stmt.op = "update"
    THEN [err |-> NoError,
          db |-> [db EXCEPT !.credentials =
                     UpdateCredential(db.credentials, stmt.name, stmt.col,
                                      stmt.val, stmt.now)]]
    ELSE InsertRotation(db, stmt.row, fk)

\* tx.Exec of stmts[i..]; statement number fault fails in the storage layer.
RECURSIVE ExecAll(_, _, _, _, _)
ExecAll(db, stmts, i, fault, fk) ==
    IF i > Len(stmts) THEN [err |-> NoError, db |-> db, at |-> 0]
    ELSE IF fault = i THEN [err |-> ErrStore, db |-> db, at |-> i]
    ELSE LET r == Exec(db, stmts[i], fk)
         IN  IF r.err # NoError THEN [err |-> r.err, db |-> db, at |-> i]
             ELSE ExecAll(r.db, stmts, i + 1, fault, fk)

\* The statements took effect outside the transaction: nothing is undone.
RollbackNothing(before, partial) == partial

\* tx.Rollback: the tables are as they were at BeginTx.
Rollback(before, partial) == before

\* BeginTx; the statements; tx.Commit, or the deferred tx.Rollback on an
\* early return.  fault = Len(stmts) + 1 makes the commit fail.
RunTx(db, stmts, fault, fk) ==
    LET r == ExecAll(db, stmts, 1, fault, fk)
    IN  IF r.err # NoError
        THEN [err |-> r.err, db |-> Rollback(db, r.db), at |-> r.at]
        ELSE IF fault = Len(stmts) + 1
        THEN [err |-> ErrStore, db |-> Rollback(db, r.db), at |-> fault]
        ELSE [err |-> NoError, db |-> r.db, at |-> 0]

\* ----------------------------------------------------------------- reads

\* sql.NullString.String: NULL scans as "".
NullString(v) == IF v = Nil THEN "" ELSE v[1]

\* A NULL or BLOB column scanned into a []byte: NULL scans as nil.
ScanBytes(v) == IF v = Nil THEN <<>> ELSE v[1]

\* GetCredential: [err, out], out the decrypted api_key.
GetCredentialResult(creds, k, open, name) ==
    IF ~open THEN [err |-> ErrClosed, out |-> ""]
    ELSE IF name \notin DOMAIN creds THEN [err |-> ErrNotFound, out |-> ""]
    ELSE LET d == decrypt(k, creds[name].api_key)
         IN  IF d.err # NoError THEN [err |-> d.err, out |-> ""]
             ELSE [err |-> NoError, out |-> d.plain]

\* GetCredentialV2: [err, out], out the Credential struct.
GetCredentialV2Result(creds, k, open, name) ==
    IF ~open THEN [err |-> ErrClosed, out |-> Credential]
    ELSE IF name \notin DOMAIN creds THEN [err |-> ErrNotFound, out |-> Credential]
    ELSE LET row == creds[name]
             secretBlob == row.api_key
             publicBlob == ScanBytes(row.public_key)
             ds == decrypt(k, secretBlob)
             dp == decrypt(k, publicBlob)
             c == [Credential EXCEPT
                      !.ID = row.id, !.Name = row.name,
                      !.APIType = NullString(row.api_type),
                      !.Metadata = NullString(row.metadata),
                      !.CreatedAt = row.created_at, !.UpdatedAt = row.updated_at,
                      !.Environment = row.environment, !.URL = row.url,
                      !.KeyID = row.key_id, !.LastRotated = row.last_rotated,
                      !.SecretKey = IF Len(secretBlob) > 0 THEN Some(ds.plain) ELSE Nil,
                      !.PublicKey = IF Len(publicBlob) > 0 THEN Some(dp.plain) ELSE Nil,
                      !.Config = IF row.config # Nil THEN UnmarshalMap(row.config[1])
                                 ELSE {}]
         IN  IF Len(secretBlob) > 0 /\ ds.err # NoError
             THEN [err |-> ds.err, out |-> Credential]
             ELSE IF Len(publicBlob) > 0 /\ dp.err # NoError
             THEN [err |-> dp.err, out |-> Credential]
             ELSE [err |-> NoError, out |-> c]

\* A listing that also scans api_key and public_key into the struct.
ScanListRowWithKeys(row) ==
    [Credential EXCEPT
        !.ID = row.id, !.Name = row.name,
        !.APIType = NullString(row.api_type), !.Metadata = NullString(row.metadata),
        !.CreatedAt = row.created_at, !.UpdatedAt = row.updated_at,
        !.SecretKey = Some(row.api_key), !.PublicKey = row.public_key]

\* The Scan of ListCredentials: id, name, api_type, metadata, created_at,
\* updated_at; every other field keeps its zero value.
ScanListRow(row) ==
    [Credential EXCEPT
        !.ID = row.id, !.Name = row.name,
        !.APIType = NullString(row.api_type), !.Metadata = NullString(row.metadata),
        !.CreatedAt = row.created_at, !.UpdatedAt = row.updated_at]

\* The stored names in the order of their rows' ids, the order of insertion.
OrderByID(creds) ==
    [i \in 1..Cardinality(DOMAIN creds) |->
        CHOOSE m \in DOMAIN creds :
            Cardinality({k \in DOMAIN creds : creds[k].id < creds[m].id}) = i - 1]

\* ORDER BY name: the stored names in the order of the BINARY collation.
OrderByName(creds) ==
    [i \in 1..Cardinality(DOMAIN creds) |->
        CHOOSE m \in DOMAIN creds :
            Cardinality({k \in DOMAIN creds : Before(k, m)}) = i - 1]

\* ListCredentials: [err, out], out the []Credential.
ListCredentialsResult(creds, open) ==
    IF ~open THEN [err |-> ErrClosed, out |-> <<>>]
    ELSE LET names == OrderByName(creds)
         IN  [err |-> NoError,
              out |-> [i \in 1..Len(names) |-> ScanListRow(creds[names[i]])]]

\* The Scan of GetRotationHistory into a RotationRecord.
ScanRotation(row) ==
    [ID |-> row.id,
     RotatedFields |-> UnmarshalFields(row.rotated_fields),
     NewKeyID |-> NullString(row.new_key_id),
     PluginName |-> row.plugin_name,
     RotatedAt |-> row.rotated_at,
     RotatedBy |-> row.rotated_by,
     Metadata |-> IF row.metadata # Nil THEN UnmarshalMap(row.metadata[1]) ELSE {}]

\* WHERE credential_name = name, in rowid order.
RotationsOf(rots, name) == SelectSeq(rots, LAMBDA r : r.credential_name = name)

\* ORDER BY rotated_at DESC LIMIT limit: every order of the matching rows the
\* query may produce (rows of one second come in an unspecified order), cut to
\* limit rows; a negative limit is no limit.
HistoryResults(rots, name, limit) ==
    LET rows == RotationsOf(rots, name)
        n == Len(rows)
        m == IF limit < 0 \/ limit > n THEN n ELSE limit
        orders == {p \in [1..n -> 1..n] :
                     /\ \A i, j \in 1..n : i # j => p[i] # p[j]
                     /\ \A i, j \in 1..n :
                          i < j => rows[p[i]].rotated_at >= rows[p[j]].rotated_at}
    IN  {[i \in 1..m |-> ScanRotation(rows[p[i]])] : p \in orders}

\* GetRotationHistory: the [err, out] it may return; d.db.Query fails on a
\* closed handle.
GetRotationHistoryResult(rots, open, name, limit) ==
    IF ~open THEN {[err |-> ErrClosed, out |-> <<>>]}
    ELSE {[err |-> NoError, out |-> h] : h \in HistoryResults(rots, name, limit)}

\* ---------------------------------------------------------------- writes

\* A row of the credentials table with every nullable column NULL.
CredentialRow(id, name, blob, apiType, now) ==
    [id |-> id, name |-> name, api_key |-> blob, api_type |-> Some(apiType),
     metadata |-> Nil, environment |-> Nil, public_key |-> Nil, url |-> Nil,
     config |-> Nil, key_id |-> Nil, last_rotated |-> Nil,
     created_at |-> now, updated_at |-> now]

\* A flexible model with a secret column of its own: api_key is left empty
\* and the sealed secret is kept in the config column.
CredentialRowV2OwnColumn(id, cred, k, n1, n2, now) ==
    [CredentialRow(id, cred.Name, <<>>, cred.APIType, now)
        EXCEPT !.environment = cred.Environment,
               !.public_key = IF HasPublic(cred)
                              THEN Some(encrypt(k, n2, cred.PublicKey[1])) ELSE Nil,
               !.url = cred.URL,
               !.config = IF HasSecret(cred)
                          THEN Some(encrypt(k, n1, cred.SecretKey[1])) ELSE Nil,
               !.key_id = cred.KeyID]

\* The row AddCredentialV2 inserts for cred.
CredentialRowV2(id, cred, k, n1, n2, now) ==
    [CredentialRow(id, cred.Name,
                   IF HasSecret(cred) THEN encrypt(k, n1, cred.SecretKey[1]) ELSE <<>>,
                   cred.APIType, now)
        EXCEPT !.environment = cred.Environment,
               !.public_key = IF HasPublic(cred)
                              THEN Some(encrypt(k, n2, cred.PublicKey[1])) ELSE Nil,
               !.url = cred.URL,
               !.config = IF cred.Config # {} THEN Some(MarshalMap(cred.Config)) ELSE Nil,
               !.key_id = cred.KeyID]

\* Every outcome field, whether the outcome sets it or not.
AllRotatableFields(result) == <<"secret_key", "public_key", "url">>

\* fields, as RotateCredential appends to it: one name per outcome field that
\* is not nil, in the order secret, public, url.
RotatedFields(result) ==
    (IF result.NewSecretKey # Nil THEN <<"secret_key">> ELSE <<>>)
        \o (IF result.NewPublicKey # Nil THEN <<"public_key">> ELSE <<>>)
        \o (IF result.NewURL # Nil THEN <<"url">> ELSE <<>>)

UpdateStmt(name, col, val, now) ==
    [op |-> "update", name |-> name, col |-> col, val |-> val, now |-> now, row |-> Nil]

InsertStmt(row) ==
    [op |-> "insert", name |-> "", col |-> "", val |-> Nil, now |-> 0, row |-> row]

\* The statements RotateCredential runs in its transaction, in order.
RotationStatements(k, n1, n2, name, result, pluginName, rotatedBy, now, id) ==
    (IF result.NewSecretKey # Nil
     THEN <<UpdateStmt(name, "api_key", encrypt(k, n1, result.NewSecretKey[1]), now)>>
     ELSE <<>>)
    \o (IF result.NewPublicKey # Nil
        THEN <<UpdateStmt(name, "public_key",
                          Some(encrypt(k, n2, result.NewPublicKey[1])), now)>>
        ELSE <<>>)
    \o (IF result.NewURL # Nil
        THEN <<UpdateStmt(name, "url", result.NewURL, now)>> ELSE <<>>)
    \o (IF result.KeyID # ""
        THEN <<UpdateStmt(name, "key_id", Some(result.KeyID), now)>> ELSE <<>>)
    \o <<UpdateStmt(name, "last_rotated", Some(now), now)>>
    \o <<InsertStmt([id |-> id, credential_name |-> name,
                     rotated_fields |-> MarshalFields(RotatedFields(result)),
                     old_key_id |-> Nil, new_key_id |-> Some(result.KeyID),
                     plugin_name |-> pluginName, rotated_at |-> now,
                     rotated_by |-> rotatedBy,
                     metadata |-> IF result.Metadata # {}
                                  THEN Some(MarshalMap(result.Metadata)) ELSE Nil])>>

Called(op, name) == [op |-> op, name |-> name]

\* ------------------------------------------------------ the write handlers
\* Each handler as the error it returns and the tables it leaves behind.

\* AddCredential
AddCredentialResult(name, apiKey, apiType, nonce) ==
    LET blob == encrypt(key, nonce, apiKey)
        row == CredentialRow(newID(CredentialIDs(credentials)), name, blob, apiType,
                             clock)
        ins == InsertCredential(credentials, row)
    IN  IF ~dbOpen THEN [err |-> ErrClosed, credentials |-> credentials]
        ELSE IF isUniqueViolation(ins.err)
        THEN [err |-> ErrDuplicate, credentials |-> ins.rows]
        ELSE [err |-> ins.err, credentials |-> ins.rows]

\* AddCredentialV2
AddCredentialV2Result(cred, n1, n2) ==
    LET row == CredentialRowV2(newID(CredentialIDs(credentials)), cred, key, n1, n2,
                               clock)
        ins == InsertCredential(credentials, row)
    IN  IF Validate(cred) # NoError
        THEN [err |-> Validate(cred), credentials |-> credentials]
        ELSE IF ~dbOpen THEN [err |-> ErrClosed, credentials |-> credentials]
        ELSE IF isUniqueViolation(ins.err)
        THEN [err |-> ErrDuplicate, credentials |-> ins.rows]
        ELSE [err |-> ins.err, credentials |-> ins.rows]

\* DeleteCredential
DeleteCredentialResult(name) ==
    LET n == Cardinality(DOMAIN credentials \cap {name})
        rows == DeleteCredentialRow(credentials, name)
        kept == IF DOMAIN rows = DOMAIN credentials THEN rotations
                ELSE CascadeDelete(rotations, name, foreignKeys)
    IN  IF ~dbOpen
        THEN [err |-> ErrClosed, credentials |-> credentials, rotations |-> rotations]
        ELSE [err |-> IF n = 0 THEN ErrNotFound ELSE NoError,
              credentials |-> rows, rotations |-> kept]

\* RotateCredential; statement number fault of its transaction fails.
RotateCredentialResult(name, result, pluginName, rotatedBy, n1, n2, fault) ==
    LET stmts == RotationStatements(key, n1, n2, name, result, pluginName, rotatedBy,
                                    clock, newID(RotationIDs(rotations)))
        tx == RunTx(Tables(credentials, rotations), stmts, fault, foreignKeys)
    IN  IF ~dbOpen
        THEN [err |-> ErrClosed, credentials |-> credentials, rotations |-> rotations]
        ELSE [err |-> tx.err, credentials |-> tx.db.credentials,
              rotations |-> tx.db.rotations]

\* --------------------------------------------------------------- actions
\* last names the last call that returned without an error; a call that
\* returns an error leaves it alone.

\* The columns of the credentials table: those of the first schema, those
\* migrateV2 adds, in the order it adds them.
V1Columns == {"id", "name", "api_key", "api_type", "metadata", "created_at", "updated_at"}
V2Columns == <<"environment", "public_key", "url", "config", "key_id", "last_rotated">>
AllColumns == V1Columns \cup {V2Columns[i] : i \in 1..Len(V2Columns)}

\* The goroutines that call the handle, and the rotate command.
Procs == {"p1", "p2"}
RotateCmd == "cmd"

\* d.mu unlocked; a goroutine between calls; the rotate command not running.
MuFree == [writer |-> "", readers |-> {}]
Idle == [op |-> "", at |-> "idle"]
CmdIdle ==
    [pc |-> "idle", name |-> "", cred |-> Credential, plugin |-> "",
     result |-> RotationResult, err |-> NoError, cause |-> NoError,
     expired |-> FALSE, late |-> FALSE, pluginErr |-> NoError,
     before |-> Tables([n \in {} |-> Nil], <<>>), calls |-> 0, saves |-> 0]

\* The plugin objects: the two the init functions register, and a second
\* object that also calls itself openai.  NoPlugin is the nil Plugin.
InitPlugins == {[name |-> "openai", id |-> 1], [name |-> "supabase", id |-> 1]}
PluginObjects == InitPlugins \cup {[name |-> "openai", id |-> 2]}
NoPlugin == [name |-> "", id |-> 0]

\* The goroutines that call the registry; one between calls.
Goroutines == {"g1", "g2"}
RegIdle == [op |-> "", arg |-> "", at |-> "idle",
            out |-> [plugin |-> NoPlugin, ok |-> FALSE, list |-> <<>>, seen |-> {}]]

\* NewRegistry
NewRegistry == [plugins |-> [n \in {} |-> NoPlugin], mu |-> MuFree]

\* Register with a map made anew for each plugin.
RegisterAlone(plugins, p) == [n \in {p.name} |-> p]

\* r.plugins[p.Name()] = p
RegisterPlugin(plugins, p) ==
    [n \in DOMAIN plugins \cup {p.name} |-> IF n = p.name THEN p ELSE plugins[n]]

\* serviceTemplates, the services the setup wizard offers.
serviceTemplates == <<"OpenAI", "Anthropic", "Supabase", "Stripe", "GitHub", "Custom">>

\* newSetupModel: the wizard at its first step.  selectedService counts from
\* 0 as the Go index does.
newSetupModel ==
    [step |-> 0, selectedService |-> 0, accountName |-> "", apiKey |-> "",
     cursor |-> 0, err |-> NoError, done |-> FALSE]

\* No terminal program runs: the zero interactiveModel.  program names the
\* command that runs ("setup", "list"), quit is set once the program has
\* returned tea.Quit, crashed once it has panicked, wizards counts the times
\* the list has opened its wizard.
NoScreen ==
    [program |-> "", wizards |-> 0, credentials |-> <<>>, cursor |-> 0, filter |-> "", viewing |-> FALSE,
     viewContent |-> "", adding |-> FALSE, setup |-> newSetupModel,
     status |-> "", err |-> NoError, quit |-> FALSE, crashed |-> FALSE]

\* The init functions have run: both plugins are registered, nobody calls.
PluginsRegistered ==
    /\ registry = [plugins |-> [n \in {"openai", "supabase"} |-> [name |-> n, id |-> 1]],
                   mu |-> MuFree]
    /\ registered = InitPlugins
    /\ regCalls = [g \in Goroutines |-> RegIdle]

\* Nobody is inside a call.
Quiet ==
    /\ mu = MuFree
    /\ callers = [p \in Procs \cup {RotateCmd} |-> Idle]
    /\ cmd = CmdIdle
    /\ PluginsRegistered
    /\ tui = NoScreen

\* A fully migrated vault file created under MasterPassword.
MigratedFile ==
    /\ vaultPassword = Some(MasterPassword)
    /\ columns = AllColumns
    /\ hasRotations = TRUE
    /\ salt = Some(VaultSalt)
    /\ opened = [password |-> MasterPassword, err |-> NoError]

\* NewDatabase has just created an empty vault under MasterPassword.
Init ==
    /\ credentials = [n \in {} |-> Nil]
    /\ rotations = <<>>
    /\ key = deriveKey(MasterPassword, VaultSalt)
    /\ dbOpen = TRUE
    /\ clock = 1
    /\ last = Called("NewDatabase", "")
    /\ MigratedFile
    /\ Quiet

AddCredential(name, apiKey, apiType, nonce) ==
    \E r \in {AddCredentialResult(name, apiKey, apiType, nonce)} :
        /\ credentials' = r.credentials
        /\ last' = IF r.err = NoError THEN Called("AddCredential", name) ELSE last
        /\ UNCHANGED <<rotations, key, dbOpen, clock, outsideStore>>

AddCredentialV2(cred, n1, n2) ==
    \E r \in {AddCredentialV2Result(cred, n1, n2)} :
        /\ credentials' = r.credentials
        /\ last' = IF r.err = NoError THEN Called("AddCredentialV2", cred.Name) ELSE last
        /\ UNCHANGED <<rotations, key, dbOpen, clock, outsideStore>>

\* The read handlers return a value and change nothing.
GetCredential(name) ==
    /\ GetCredentialResult(credentials, key, dbOpen, name).err
           \in {NoError, ErrNotFound, ErrDecryptFail, ErrClosed}
    /\ UNCHANGED vars

GetCredentialV2(name) ==
    /\ GetCredentialV2Result(credentials, key, dbOpen, name).err
           \in {NoError, ErrNotFound, ErrDecryptFail, ErrClosed}
    /\ UNCHANGED vars

ListCredentials ==
    /\ ListCredentialsResult(credentials, dbOpen).err \in {NoError, ErrClosed}
    /\ UNCHANGED vars

DeleteCredential(name) ==
    \E r \in {DeleteCredentialResult(name)} :
        /\ credentials' = r.credentials
        /\ rotations' = r.rotations
        /\ last' = IF r.err = NoError THEN Called("DeleteCredential", name) ELSE last
        /\ UNCHANGED <<key, dbOpen, clock, outsideStore>>

\* A call of RotateCredential, whatever the rotations table holds.
RotateCredentialCall(name, result, pluginName, rotatedBy, n1, n2, fault) ==
    \E r \in {RotateCredentialResult(name, result, pluginName, rotatedBy, n1, n2,
                                      fault)} :
        /\ credentials' = r.credentials
        /\ rotations' = r.rotations
        /\ last' = IF r.err = NoError THEN Called("RotateCredential", name) ELSE last
        /\ UNCHANGED <<key, dbOpen, clock, outsideStore>>

RotateCredential(name, result, pluginName, rotatedBy, n1, n2, fault) ==
    /\ Len(rotations) < MaxRotations
    /\ RotateCredentialCall(name, result, pluginName, rotatedBy, n1, n2, fault)

GetRotationHistory(name, limit) ==
    /\ dbOpen => HistoryResults(rotations, name, limit) # {}
    /\ UNCHANGED vars

\* A Close that zeroes the key and keeps the handle open.
CloseKeepsHandle ==
    /\ key' = [i \in DOMAIN key |-> 0]
    /\ last' = Called("Close", "")
    /\ UNCHANGED <<dbOpen, credentials, rotations, clock, outsideStore>>

Close ==
    /\ key' = [i \in DOMAIN key |-> 0]
    /\ dbOpen' = FALSE
    /\ last' = Called("Close", "")
    /\ UNCHANGED <<credentials, rotations, clock, outsideStore>>

\* A second of wall-clock time passes.
Tick ==
    /\ clock < MaxClock
    /\ clock' = clock + 1
    /\ UNCHANGED <<credentials, rotations, key, dbOpen, last, outsideStore>>

Limits == 0..MaxRotations

\* The statements RotateCredential runs for an outcome, counted from the
\* outcome alone: one per field set, one for a key id, last_rotated, the insert.
StatementCount(result) ==
    (IF result.NewSecretKey # Nil THEN 1 ELSE 0)
        + (IF result.NewPublicKey # Nil THEN 1 ELSE 0)
        + (IF result.NewURL # Nil THEN 1 ELSE 0)
        + (IF result.KeyID # "" THEN 1 ELSE 0) + 2

\* Where the storage layer may fail a rotation: 0 for nowhere, i for its i-th
\* statement, one more than the statements for the commit.
FaultPoints(result) == 0..(StatementCount(result) + 1)

Next ==
    \/ \E in \in AddInputs, nonce \in Nonces :
           AddCredential(in[1], in[2], in[3], nonce)
    \/ \E cred \in CredentialInputs, n1, n2 \in Nonces : AddCredentialV2(cred, n1, n2)
    \/ \E name \in Names : GetCredential(name)
    \/ \E name \in Names : GetCredentialV2(name)
    \/ ListCredentials
    \/ \E name \in Names : DeleteCredential(name)
    \/ \E in \in RotationInputs, rotatedBy \in Actors, n1, n2 \in Nonces :
          \E fault \in FaultPoints(in.result) :
             RotateCredential(in.name, in.result, in.plugin, rotatedBy, n1, n2, fault)
    \/ \E name \in Names, limit \in Limits : GetRotationHistory(name, limit)
    \/ Tick

\* The store between NewDatabase and Close.
Spec == Init /\ [][Next]_vars

\* The store over its whole life, Close included.
NextClosing == Next \/ Close
SpecClosing == Init /\ [][NextClosing]_vars

\* ------------------------------------------------- what a caller observes

\* The reads of the current store.
Get(name) == GetCredentialResult(credentials, key, dbOpen, name)
GetV2(name) == GetCredentialV2Result(credentials, key, dbOpen, name)
History(name, limit) == HistoryResults(rotations, name, limit)

\* The limits a caller may pass, -1 (no limit) included.
AnyLimit == Limits \cup {-1}

\* A call of RotateCredential with the arguments in.
RotateOutcome(in, by, n1, n2, fault) ==
    RotateCredentialResult(in.name, in.result, in.plugin, by, n1, n2, fault)

\* ------------------------------------------------------------------ C1
\* C1: rotation is all-or-nothing.  A fault at any statement of the
\* transaction, the commit included, makes RotateCredential fail, and after
\* any failed RotateCredential GetCredentialV2 returns for every name what it
\* returned before (secret, public key, URL, key id, lastRotatedAt, updatedAt)
\* and the rotations table, which is all GetRotationHistory reads, is as before.
RotationAllOrNothing ==
    \A in \in RotationInputs, by \in Actors, n1, n2 \in Nonces :
      \A fault \in FaultPoints(in.result) :
        \A r \in {RotateOutcome(in, by, n1, n2, fault)} :
            /\ fault # 0 => r.err # NoError
            /\ r.err # NoError =>
                   /\ r.rotations = rotations
                   /\ r.credentials = credentials

\* A stored credential with secret, public key and URL whose rotation of all
\* three fields is interrupted at the insert of the rotation record, after
\* every UPDATE has run.
RotationInterrupted ==
    /\ dbOpen
    /\ last = Called("AddCredentialV2", "a")
    /\ GetV2("a").out.SecretKey = Some("sk-1")
    /\ \E in \in RotationInputs, by \in Actors, n1, n2 \in Nonces :
           /\ in.name = "a"
           /\ StatementCount(in.result) = 6
           /\ RotateOutcome(in, by, n1, n2, 6).err = ErrStore

\* ------------------------------------------------------------------ C2
\* C2: RotateCredential on a name that is not in the store fails with
\* ErrNotFound and appends no rotation record.
RotateMissingIsNotFound ==
    \A in \in RotationInputs, by \in Actors, n1, n2 \in Nonces :
        (dbOpen /\ in.name \notin DOMAIN credentials) =>
            LET r == RotateOutcome(in, by, n1, n2, 0)
            IN  r.err = ErrNotFound /\ r.rotations = rotations

\* ------------------------------------------------------------------ C3
\* C3: deleting a credential removes its rotation history: as long as a
\* successful DeleteCredential(name) is the last successful write,
\* GetRotationHistory(name) returns no records, whatever the limit.  (No add
\* writes to the rotations table, so records that outlive the delete are
\* still returned after the name is added again.)
DeleteCascadesHistory ==
    (dbOpen /\ last.op = "DeleteCredential")
        => \A limit \in AnyLimit : History(last.name, limit) = {<<>>}

\* ------------------------------------------------------------------ C4
\* The outcome fields that are set, in the order secret, public, url.
FieldsSet(result) ==
    SelectSeq(<<"secret_key", "public_key", "url">>,
              LAMBDA f : \/ f = "secret_key" /\ result.NewSecretKey # Nil
                         \/ f = "public_key" /\ result.NewPublicKey # Nil
                         \/ f = "url" /\ result.NewURL # Nil)

\* C4: a successful RotateCredential appends one record, and the
\* RotatedFields GetRotationHistory scans from it are exactly the outcome
\* fields that were set (not nil), in the order secret, public, url; an
\* outcome that sets only the secret records exactly secret_key.
RotatedFieldsFollowOutcome ==
    \A in \in RotationInputs, by \in Actors, n1, n2 \in Nonces :
        \A r \in {RotateOutcome(in, by, n1, n2, 0)} :
            r.err = NoError =>
                /\ Len(r.rotations) = Len(rotations) + 1
                /\ SubSeq(r.rotations, 1, Len(rotations)) = rotations
                /\ \A rec \in {ScanRotation(r.rotations[Len(r.rotations)])} :
                       /\ rec.RotatedFields = FieldsSet(in.result)
                       /\ (in.result.NewSecretKey # Nil /\ in.result.NewPublicKey = Nil
                               /\ in.result.NewURL = Nil)
                              => rec.RotatedFields = <<"secret_key">>

\* A credential with secret, public key and URL was rotated by an outcome
\* that set only the secret, and its history shows exactly secret_key.
SecretOnlyRotationRecorded ==
    /\ dbOpen
    /\ last = Called("RotateCredential", "a")
    /\ GetV2("a").out.SecretKey = Some("sk-2")
    /\ GetV2("a").out.PublicKey = Some("pk-1")
    /\ \E h \in History("a", 1) : Len(h) = 1 /\ h[1].RotatedFields = <<"secret_key">>

\* ------------------------------------------------------------------ C5
\* The fields of a Credential a rotation never writes.
FixedFields == {"ID", "Name", "APIType", "Metadata", "Environment", "Config", "CreatedAt"}

\* C5: a successful RotateCredential(name, outcome) leaves every other
\* credential's row as it was, adds and removes no credential, and of the
\* credential called name changes, as GetCredentialV2 returns it, none of
\* id, name, provider type, metadata, environment, config and createdAt and
\* none of SecretKey, PublicKey and URL that the outcome does not set; each
\* of these three that the outcome sets is afterwards the outcome's value.
RotationFrame ==
    \A in \in RotationInputs, by \in Actors, n1, n2 \in Nonces :
        \A r \in {RotateOutcome(in, by, n1, n2, 0)} :
            r.err = NoError =>
                /\ DOMAIN r.credentials = DOMAIN credentials
                /\ \A n \in DOMAIN credentials \ {in.name} :
                       r.credentials[n] = credentials[n]
                /\ in.name \in DOMAIN credentials =>
                     \A before \in {GetV2(in.name)} :
                     \A after \in {GetCredentialV2Result(r.credentials, key, dbOpen,
                                                         in.name)} :
                         /\ after.err = before.err
                         /\ \A f \in FixedFields : after.out[f] = before.out[f]
                         /\ after.out.SecretKey =
                                IF in.result.NewSecretKey = Nil THEN before.out.SecretKey
                                ELSE in.result.NewSecretKey
                         /\ after.out.PublicKey =
                                IF in.result.NewPublicKey = Nil THEN before.out.PublicKey
                                ELSE in.result.NewPublicKey
                         /\ after.out.URL =
                                IF in.result.NewURL = Nil THEN before.out.URL
                                ELSE in.result.NewURL

\* Next to credential b, credential a was rotated by an outcome that set only
\* the secret: its secret is the new one, its public key, URL and environment
\* are those it was added with.
SecretRotatedBesideOther ==
    /\ dbOpen
    /\ last = Called("RotateCredential", "a")
    /\ "b" \in DOMAIN credentials
    /\ GetV2("a").out.SecretKey = Some("sk-2")
    /\ GetV2("a").out.PublicKey = Some("pk-1")
    /\ GetV2("a").out.URL = Some("https://u1")
    /\ GetV2("a").out.Environment = Some("prod")
    /\ GetV2("b").out.SecretKey = Some("sk-1")

\* ------------------------------------------------------------------ C6
\* C6: while a credential of that name is stored, AddCredential fails with
\* ErrDuplicate and so does AddCredentialV2 of a credential that passes
\* Validate (one that does not fails with Validate's error), whichever of the
\* two wrote the stored row; the credentials table is left as it was.
DuplicateAddRejected ==
    /\ \A in \in AddInputs, nonce \in Nonces :
           in[1] \in DOMAIN credentials =>
               \A r \in {AddCredentialResult(in[1], in[2], in[3], nonce)} :
                   /\ r.err = ErrDuplicate
                   /\ r.credentials = credentials
    /\ \A cred \in CredentialInputs, n1, n2 \in Nonces :
           cred.Name \in DOMAIN credentials =>
               \A r \in {AddCredentialV2Result(cred, n1, n2)} :
                   /\ r.err = IF Validate(cred) = NoError THEN ErrDuplicate
                              ELSE Validate(cred)
                   /\ r.credentials = credentials

\* Credential a was written by AddCredentialV2 with secret and public key, and
\* AddCredential of the name a is refused as a duplicate.
DuplicateAcrossModels ==
    /\ dbOpen
    /\ last = Called("AddCredentialV2", "a")
    /\ GetV2("a").out.PublicKey = Some("pk-1")
    /\ \E in \in AddInputs, nonce \in Nonces :
           /\ in[1] = "a"
           /\ AddCredentialResult(in[1], in[2], in[3], nonce).err = ErrDuplicate

\* ------------------------------------------------------------------ C7
\* C7: DeleteCredential of a name that is not stored fails with ErrNotFound
\* and leaves both tables as they were; DeleteCredential of a stored name
\* succeeds, after it GetCredential and GetCredentialV2 of the name fail with
\* ErrNotFound and every other credential is read as before; and as long as
\* the delete is the last successful write, a second DeleteCredential of the
\* name fails with ErrNotFound.
DeleteContract ==
    /\ \A name \in Names :
           \A r \in {DeleteCredentialResult(name)} :
               IF name \notin DOMAIN credentials
               THEN /\ r.err = ErrNotFound
                    /\ r.credentials = credentials
                    /\ r.rotations = rotations
               ELSE /\ r.err = NoError
                    /\ GetCredentialResult(r.credentials, key, dbOpen, name).err
                           = ErrNotFound
                    /\ GetCredentialV2Result(r.credentials, key, dbOpen, name).err
                           = ErrNotFound
                    /\ \A m \in DOMAIN credentials \ {name} :
                           /\ GetCredentialResult(r.credentials, key, dbOpen, m) = Get(m)
                           /\ GetCredentialV2Result(r.credentials, key, dbOpen, m)
                                  = GetV2(m)
    /\ last.op = "DeleteCredential" =>
           /\ Get(last.name).err = ErrNotFound
           /\ GetV2(last.name).err = ErrNotFound
           /\ DeleteCredentialResult(last.name).err = ErrNotFound

\* Credential a has just been deleted and credential b is still read.
DeletedBesideOther ==
    /\ dbOpen
    /\ last = Called("DeleteCredential", "a")
    /\ Get("a").err = ErrNotFound
    /\ DeleteCredentialResult("a").err = ErrNotFound
    /\ Get("b") = [err |-> NoError, out |-> "sk-1"]

\* ------------------------------------------------------------------ C8
\* What GetCredential returns for name in the store the step leaves behind.
GetAfter(name) == GetCredentialResult(credentials', key', dbOpen', name)

AcceptedHasKey ==
    /\ \A cred \in CredentialInputs, n1, n2 \in Nonces :
           (cred.SecretKey = Nil /\ cred.PublicKey = Nil) =>
               \A r \in {AddCredentialV2Result(cred, n1, n2)} :
                   r.err # NoError /\ r.credentials = credentials
    /\ (dbOpen /\ last.op = "AddCredentialV2") =>
           \A g \in {GetV2(last.name)} :
               g.err = NoError /\ (g.out.SecretKey # Nil \/ g.out.PublicKey # Nil)

\* ------------------------------------------------------------------ C10
\* The fields of a Credential that ListCredentials leaves at their zero value.
UnlistedFields ==
    {"SecretKey", "PublicKey", "Environment", "URL", "Config", "KeyID", "LastRotated"}

\* C10: every element ListCredentials returns has SecretKey and PublicKey nil
\* and every field other than id, name, provider type, metadata, createdAt
\* and updatedAt at its zero value, and these six are the row's own.
ListNeverReturnsKeys ==
    \A l \in {ListCredentialsResult(credentials, dbOpen)} :
        /\ l.err = NoError
        /\ \A i \in 1..Len(l.out) :
               /\ l.out[i].SecretKey = Nil
               /\ l.out[i].PublicKey = Nil
               /\ \A f \in UnlistedFields : l.out[i][f] = Credential[f]
               /\ l.out[i].Name \in DOMAIN credentials
               /\ \A row \in {credentials[l.out[i].Name]} :
                      /\ l.out[i].ID = row.id
                      /\ l.out[i].APIType = NullString(row.api_type)
                      /\ l.out[i].Metadata = NullString(row.metadata)
                      /\ l.out[i].CreatedAt = row.created_at
                      /\ l.out[i].UpdatedAt = row.updated_at

\* Two credentials are stored, one of them with a secret and a public key
\* that GetCredentialV2 returns, and ListCredentials lists both.
ListedWithKeysStored ==
    /\ dbOpen
    /\ Len(ListCredentialsResult(credentials, dbOpen).out) = 2
    /\ GetV2("a").out.SecretKey = Some("sk-1")
    /\ GetV2("a").out.PublicKey = Some("pk-1")

\* ------------------------------------------------------------------ C11
\* The place of a name in the collation order.
Rank(name) == CHOOSE i \in 1..Len(NameOrder) : NameOrder[i] = name

\* C11: ListCredentials returns one element per stored credential and no
\* other: as many elements as stored names, every stored name among them, and
\* the names strictly ascending, whatever the order of the rows' insertion.
ListedOncePerNameAscending ==
    \A l \in {ListCredentialsResult(credentials, dbOpen)} :
        /\ l.err = NoError
        /\ Len(l.out) = Cardinality(DOMAIN credentials)
        /\ {l.out[i].Name : i \in 1..Len(l.out)} = DOMAIN credentials
        /\ \A i, j \in 1..Len(l.out) :
               i < j => Rank(l.out[i].Name) < Rank(l.out[j].Name)

\* Credential b was inserted before credential a, and ListCredentials
\* returns a first.
ListedAscendingAfterReverseAdd ==
    /\ dbOpen
    /\ DOMAIN credentials = {"a", "b"}
    /\ credentials["b"].id < credentials["a"].id
    /\ \A l \in {ListCredentialsResult(credentials, dbOpen)} :
           Len(l.out) = 2 /\ l.out[1].Name = "a" /\ l.out[2].Name = "b"

\* ------------------------------------------------------------- d.mu
\* SpecLock: each handler split at d.mu.Lock / d.mu.RLock and at the deferred
\* unlock.  A handler is inside its critical section from the return of its
\* lock call to its own return.

Reads == {"GetCredential", "GetCredentialV2", "ListCredentials", "GetRotationHistory"}
Writes == {"AddCredential", "AddCredentialV2", "DeleteCredential", "RotateCredential",
           "Close"}
Handlers == Reads \cup Writes

\* Every handler takes the read lock.
LockKindShared(op) == "RLock"

\* The lock call that opens each handler.
LockKind(op) ==
    CASE op = "AddCredential" -> "Lock"
      [] op = "GetCredential" -> "RLock"
      [] op = "ListCredentials" -> "RLock"
      [] op = "DeleteCredential" -> "Lock"
      [] op = "Close" -> "Lock"
      [] op = "AddCredentialV2" -> "Lock"
      [] op = "GetCredentialV2" -> "RLock"
      [] op = "RotateCredential" -> "Lock"
      [] op = "GetRotationHistory" -> "RLock"

\* sync.RWMutex.  Lock first announces the writer, which turns new readers
\* away, and returns once the readers inside have left; RLock returns while
\* no writer is announced.
RLock(m, p) == [m EXCEPT !.readers = @ \cup {p}]
\* A read unlock that leaves the reader in.
RUnlockKeeps(m, p) == m
RUnlock(m, p) == [m EXCEPT !.readers = @ \ {p}]
LockAnnounced(m, p) == [m EXCEPT !.writer = p]
Unlock(m, p) == [m EXCEPT !.writer = ""]

\* The arguments the goroutines of SpecLock call the handlers with.
LockName == "a"
LockAdd == <<"a", "sk-1", "openai">>
LockCred == CHOOSE c \in CredentialInputs : c.Name = "a" /\ c.URL # Nil
LockRotation ==
    CHOOSE in \in RotationInputs :
        in.name = "a" /\ in.plugin = "openai" /\ in.result.KeyID # ""

\* What the body of a handler returns and leaves in the tables.
Outcome(op, fault) ==
    CASE op = "AddCredential" ->
           AddCredentialResult(LockAdd[1], LockAdd[2], LockAdd[3], 1)
               @@ [rotations |-> rotations]
      [] op = "AddCredentialV2" ->
           AddCredentialV2Result(LockCred, 1, 1) @@ [rotations |-> rotations]
      [] op = "DeleteCredential" -> DeleteCredentialResult(LockName)
      [] op = "RotateCredential" ->
           RotateCredentialResult(LockRotation.name, LockRotation.result,
                                  LockRotation.plugin, "cli", 1, 1, fault)
      [] op = "GetCredential" ->
           [err |-> Get(LockName).err, credentials |-> credentials,
            rotations |-> rotations]
      [] op = "GetCredentialV2" ->
           [err |-> GetV2(LockName).err, credentials |-> credentials,
            rotations |-> rotations]
      [] op = "ListCredentials" ->
           [err |-> ListCredentialsResult(credentials, dbOpen).err,
            credentials |-> credentials, rotations |-> rotations]
      [] op = "GetRotationHistory" ->
           [err |-> IF dbOpen THEN NoError ELSE ErrClosed,
            credentials |-> credentials, rotations |-> rotations]
      [] op = "Close" ->
           [err |-> NoError, credentials |-> credentials, rotations |-> rotations]

\* A goroutine calls a handler, which goes for its lock.
Call(p, op) ==
    /\ callers[p] = Idle
    /\ callers' = [callers EXCEPT ![p] = [op |-> op, at |-> "waiting"]]
    /\ UNCHANGED <<storeVars, fileVars, aside, screen, mu, cmd>>

\* d.mu.RLock() returns.
AcquireRead(p) ==
    /\ callers[p].at = "waiting"
    /\ LockKind(callers[p].op) = "RLock"
    /\ mu.writer = ""
    /\ mu' = RLock(mu, p)
    /\ callers' = [callers EXCEPT ![p].at = "in"]
    /\ UNCHANGED <<storeVars, fileVars, aside, screen, cmd>>

\* d.mu.Lock() has announced the writer and waits for the readers to leave.
AnnounceWrite(p) ==
    /\ callers[p].at = "waiting"
    /\ LockKind(callers[p].op) = "Lock"
    /\ mu.writer = ""
    /\ mu' = LockAnnounced(mu, p)
    /\ callers' = [callers EXCEPT ![p].at = "draining"]
    /\ UNCHANGED <<storeVars, fileVars, aside, screen, cmd>>

\* d.mu.Lock() returns.
AcquireWrite(p) ==
    /\ callers[p].at = "draining"
    /\ mu.readers = {}
    /\ callers' = [callers EXCEPT ![p].at = "in"]
    /\ UNCHANGED <<storeVars, fileVars, aside, screen, mu, cmd>>

\* The deferred unlock of the handler op.
Release(m, p, op) == IF LockKind(op) = "RLock" THEN RUnlock(m, p) ELSE Unlock(m, p)

\* The handler runs its body and returns, which unlocks d.mu.  A rotation
\* commits only while the rotations table has room, and fails otherwise.
Return(p) ==
    /\ callers[p].at = "in"
    /\ \E fault \in {0, 1} :
          /\ fault = 1 => callers[p].op = "RotateCredential"
          /\ (fault = 0 /\ callers[p].op = "RotateCredential")
                 => Len(rotations) < MaxRotations
          /\ \E r \in {Outcome(callers[p].op, fault)} :
                /\ credentials' = r.credentials
                /\ rotations' = r.rotations
                /\ last' = IF callers[p].op \in Writes \ {"Close"} /\ r.err = NoError
                            THEN Called(callers[p].op, LockName)
                            ELSE IF callers[p].op = "Close" THEN Called("Close", "")
                            ELSE last
    /\ key' = IF callers[p].op = "Close" THEN [i \in DOMAIN key |-> 0] ELSE key
    /\ dbOpen' = IF callers[p].op = "Close" THEN FALSE ELSE dbOpen
    /\ mu' = Release(mu, p, callers[p].op)
    /\ callers' = [callers EXCEPT ![p] = Idle]
    /\ UNCHANGED <<clock, fileVars, aside, screen, cmd>>

\* ------------------------------------------------ rotation plugins, registry

\* The plugins whose init registers them with the global registry.
Plugins == {"openai", "supabase"}

\* Registry.Get
RegistryGet(name) ==
    IF name \in Plugins THEN [plugin |-> name, ok |-> TRUE]
    ELSE [plugin |-> "", ok |-> FALSE]

\* What the rotate command hands a plugin.
CredentialInfo(cred) ==
    [Name |-> cred.Name, APIType |-> cred.APIType, SecretKey |-> cred.SecretKey,
     PublicKey |-> cred.PublicKey, URL |-> cred.URL, Config |-> cred.Config]

ErrExpectedType == "expected api_type"
ErrNeedsSecret == "openai credential requires a secret key"
ErrNeedsURL == "supabase credential requires a URL"
ErrNeedsKey == "supabase credential requires at least one key"
ErrPlugin == "plugin error"

Empty(field) == field = Nil \/ field[1] = ""

\* A Validate that looks at the api_type alone.
PluginValidateTypeOnly(plugin, info) ==
    IF info.APIType # plugin THEN ErrExpectedType ELSE NoError

\* openaiPlugin.Validate, supabasePlugin.Validate
PluginValidate(plugin, info) ==
    IF plugin = "openai"
    THEN IF info.APIType # "openai" THEN ErrExpectedType
         ELSE IF Empty(info.SecretKey) THEN ErrNeedsSecret
         ELSE NoError
    ELSE IF info.APIType # "supabase" THEN ErrExpectedType
         ELSE IF Empty(info.URL) THEN ErrNeedsURL
         ELSE IF Empty(info.SecretKey) /\ Empty(info.PublicKey) THEN ErrNeedsKey
         ELSE NoError

\* openaiPlugin.Rotate, supabasePlugin.Rotate: the stubs build their result
\* from the credential's name and return no error; neither reads its context.
PluginRotate(plugin, info) ==
    IF plugin = "openai"
    THEN [result |-> [RotationResult EXCEPT
                         !.NewSecretKey = Some("sk-rotated-stub-" \o info.Name),
                         !.KeyID = "key-" \o info.Name, !.Metadata = StubMeta],
          err |-> NoError]
    ELSE [result |-> [RotationResult EXCEPT
                         !.NewSecretKey = Some("sbp_rotated-stub-" \o info.Name),
                         !.NewPublicKey = Some("eyJ-rotated-stub-" \o info.Name),
                         !.KeyID = "supa-" \o info.Name, !.Metadata = StubMeta],
          err |-> NoError]

\* What a call of Plugin.Rotate can hand back: the plugin's result, or, as
\* the interface allows, an error and no result.
PluginOutcomes(plugin, info) ==
    {PluginRotate(plugin, info), [result |-> RotationResult, err |-> ErrPlugin]}

\* ---------------------------------------------------- the rotate command
\* RunE of the rotate command, step by step.  cmd.pc is the step it is at,
\* cmd.err the error it will return and cmd.cause the error that one wraps;
\* cmd.calls counts its calls of plugin.Rotate, cmd.saves its calls of
\* RotateCredential.  Whichever way it ends, the deferred db.Close() runs.

ErrCredential == "credential"
ErrNoPlugin == "no rotation plugin for api_type"
ErrValidation == "validation"
ErrRotate == "rotate"
ErrSaveRotation == "save rotation"

Fails(c, err, cause) == [c EXCEPT !.pc = "close", !.err = err, !.cause = cause]

\* cred, err := db.GetCredentialV2(name)
AfterLoad(c, r) ==
    IF r.err # NoError THEN Fails(c, ErrCredential, r.err)
    ELSE [c EXCEPT !.pc = "lookup", !.cred = r.out]

\* plugin, ok := rotation.GetGlobalRegistry().Get(cred.APIType)
AfterLookup(c) ==
    LET g == RegistryGet(c.cred.APIType)
    IN  IF ~g.ok THEN Fails(c, ErrNoPlugin, NoError)
        ELSE [c EXCEPT !.pc = "validate", !.plugin = g.plugin]

\* The command calls plugin.Rotate without plugin.Validate.
SkipValidate(c) == [c EXCEPT !.pc = "rotate", !.calls = @ + 1]

\* plugin.Validate(info), then context.WithTimeout and the call of
\* plugin.Rotate(ctx, info, nil)
AfterValidate(c) ==
    LET e == PluginValidate(c.plugin, CredentialInfo(c.cred))
    IN  IF e # NoError THEN Fails(c, ErrValidation, e)
        ELSE [c EXCEPT !.pc = "rotate", !.calls = @ + 1]

\* result, err := plugin.Rotate(ctx, info, nil) has returned.
AfterRotate(c, out) ==
    IF out.err # NoError THEN Fails(c, ErrRotate, out.err)
    ELSE [c EXCEPT !.pc = "save", !.result = out.result]

\* db.RotateCredential(name, coreResult, plugin.Name(), "cli") has returned.
AfterSave(c, err) ==
    [c EXCEPT !.pc = "close", !.saves = @ + 1,
              !.err = IF err # NoError THEN ErrSaveRotation ELSE NoError,
              !.cause = err]

\* The call on the handle the command makes next, if any.
CmdCall(c) ==
    IF c.pc = "save" THEN [op |-> "RotateCredential", at |-> "waiting"]
    ELSE IF c.pc = "close" THEN [op |-> "Close", at |-> "waiting"]
    ELSE Idle

\* The command starts on an open vault and calls GetCredentialV2.
CmdStart(name) ==
    /\ cmd.pc = "idle"
    /\ dbOpen
    /\ cmd' = [cmd EXCEPT !.pc = "load", !.name = name,
                          !.before = Tables(credentials, rotations)]
    /\ callers' = [callers EXCEPT
                      ![RotateCmd] = [op |-> "GetCredentialV2", at |-> "waiting"]]
    /\ UNCHANGED <<storeVars, fileVars, aside, screen, mu>>

\* GetCredentialV2 returns to the command.
CmdLoadReturn ==
    /\ cmd.pc = "load"
    /\ callers[RotateCmd].at = "in"
    /\ \E c \in {AfterLoad(cmd, GetV2(cmd.name))} :
          /\ cmd' = c
          /\ callers' = [callers EXCEPT ![RotateCmd] = CmdCall(c)]
    /\ mu' = Release(mu, RotateCmd, "GetCredentialV2")
    /\ UNCHANGED <<storeVars, fileVars, aside, screen>>

CmdLookup ==
    /\ cmd.pc = "lookup"
    /\ \E c \in {AfterLookup(cmd)} :
          /\ cmd' = c
          /\ callers' = [callers EXCEPT ![RotateCmd] = CmdCall(c)]
    /\ UNCHANGED <<storeVars, fileVars, aside, screen, mu>>

CmdValidate ==
    /\ cmd.pc = "validate"
    /\ \E c \in {AfterValidate(cmd)} :
          /\ cmd' = c
          /\ callers' = [callers EXCEPT ![RotateCmd] = CmdCall(c)]
    /\ UNCHANGED <<storeVars, fileVars, aside, screen, mu>>

\* The 30 seconds of ctx run out while plugin.Rotate is in progress.
CmdTimeout ==
    /\ cmd.pc = "rotate"
    /\ ~cmd.expired
    /\ cmd' = [cmd EXCEPT !.expired = TRUE]
    /\ UNCHANGED <<storeVars, fileVars, aside, screen, mu, callers>>

\* plugin.Rotate returns to the command; cmd.late records that ctx was done
\* by then, cmd.pluginErr the error the plugin returned.
CmdPluginReturns ==
    /\ cmd.pc = "rotate"
    /\ \E out \in PluginOutcomes(cmd.plugin, CredentialInfo(cmd.cred)) :
          \E c \in {[AfterRotate(cmd, out) EXCEPT !.late = cmd.expired,
                                                  !.pluginErr = out.err]} :
             /\ cmd' = c
             /\ callers' = [callers EXCEPT ![RotateCmd] = CmdCall(c)]
    /\ UNCHANGED <<storeVars, fileVars, aside, screen, mu>>

\* RotateCredential runs its transaction and returns to the command.  It
\* commits only while the rotations table has room, and fails otherwise.
CmdSaveReturn ==
    /\ cmd.pc = "save"
    /\ callers[RotateCmd].at = "in"
    /\ \E fault \in {0, 1} :
          /\ fault = 0 => Len(rotations) < MaxRotations
          /\ \E r \in {RotateCredentialResult(cmd.name, cmd.result, cmd.plugin,
                                               "cli", 1, 1, fault)} :
                /\ credentials' = r.credentials
                /\ rotations' = r.rotations
                /\ last' = IF r.err = NoError
                            THEN Called("RotateCredential", cmd.name) ELSE last
                /\ \E c \in {AfterSave(cmd, r.err)} :
                      /\ cmd' = c
                      /\ callers' = [callers EXCEPT ![RotateCmd] = CmdCall(c)]
    /\ mu' = Release(mu, RotateCmd, "RotateCredential")
    /\ UNCHANGED <<key, dbOpen, clock, fileVars, aside, screen>>

\* The deferred db.Close() returns and the command with it.
CmdCloseReturn ==
    /\ cmd.pc = "close"
    /\ callers[RotateCmd].at = "in"
    /\ key' = [i \in DOMAIN key |-> 0]
    /\ dbOpen' = FALSE
    /\ last' = Called("Close", "")
    /\ cmd' = [cmd EXCEPT !.pc = "done"]
    /\ callers' = [callers EXCEPT ![RotateCmd] = Idle]
    /\ mu' = Release(mu, RotateCmd, "Close")
    /\ UNCHANGED <<credentials, rotations, clock, fileVars, aside, screen>>

\* The steps of the command, its waits for d.mu among them.
CmdStep ==
    \/ CmdLoadReturn
    \/ CmdLookup
    \/ CmdValidate
    \/ CmdTimeout
    \/ CmdPluginReturns
    \/ CmdSaveReturn
    \/ CmdCloseReturn

NextLock ==
    \/ \E p \in Procs, op \in Handlers : Call(p, op)
    \/ \E p \in Procs : AcquireRead(p)
    \/ \E p \in Procs : AnnounceWrite(p)
    \/ \E p \in Procs : AcquireWrite(p)
    \/ \E p \in Procs : Return(p)

SpecLock == Init /\ [][NextLock]_vars

\* The rotate command beside another goroutine on the same handle.
Other == "p1"

NextRotateLock ==
    \/ \E op \in Handlers : Call(Other, op)
    \/ \E p \in {Other, RotateCmd} : AcquireRead(p)
    \/ \E p \in {Other, RotateCmd} : AnnounceWrite(p)
    \/ \E p \in {Other, RotateCmd} : AcquireWrite(p)
    \/ Return(Other)
    \/ CmdStart(LockName)
    \/ CmdStep

SpecRotateLock == Init /\ [][NextRotateLock]_vars

\* The rotate command alone on a vault that holds what earlier commands
\* added: credentials of a type no plugin is registered for, credentials the
\* plugins reject, credentials they accept.
RotateAdds == {<<"a", "sk-1", "generic">>, <<"b", "sk-1", "openai">>}

NextRotate ==
    \/ cmd.pc = "idle" /\ \E in \in RotateAdds : AddCredential(in[1], in[2], in[3], 1)
    \/ cmd.pc = "idle" /\ \E c \in CredentialInputs : AddCredentialV2(c, 1, 1)
    \/ \E n \in Names : CmdStart(n)
    \/ AcquireRead(RotateCmd)
    \/ AnnounceWrite(RotateCmd)
    \/ AcquireWrite(RotateCmd)
    \/ CmdStep

SpecRotate == Init /\ [][NextRotate]_vars

\* ------------------------------------------------------------ NewDatabase
\* The vault file as NewDatabase finds and leaves it, and the statement of
\* the open that fails, if one does: the schema Exec, the PRAGMA table_info
\* query, one of the ALTER TABLE statements (named by its column), the Exec
\* that creates the rotations table, the salt query, the salt insert.

File(pw, cols, rots, s) ==
    [vaultPassword |-> pw, columns |-> cols, hasRotations |-> rots, salt |-> s]

OpenFaults ==
    {"none", "schema", "table_info", "rotations", "salt read", "salt write"}
        \cup {V2Columns[i] : i \in 1..Len(V2Columns)}

ErrSchema == "schema"
ErrMigrate == "migrate"
ErrDuplicateColumn == "duplicate column name"
ErrMigrateRotations == "migrate rotations"
ErrSalt == "salt"

\* SQLCipher opens a file under any key.
AnyKeyOpens(f, password) == TRUE

\* SQLCipher reads a file only under the key it was created with; a file
\* that does not exist yet is created under the key given.
KeyOpens(f, password) == f.vaultPassword = Nil \/ f.vaultPassword[1] = password

\* CREATE TABLE IF NOT EXISTS config, credentials: the first statement of
\* NewDatabase that reads the file.
SchemaExec(f, password, fault) ==
    IF fault = "schema" \/ ~KeyOpens(f, password)
    THEN [err |-> ErrSchema, file |-> f]
    ELSE [err |-> NoError,
          file |-> [f EXCEPT !.vaultPassword = Some(password),
                             !.columns = IF @ = {} THEN V1Columns ELSE @]]

\* The table never reports the column public_key.
HasColumnNever(cols) == FALSE

\* The loop of migrateV2 over PRAGMA table_info(credentials).
HasColumn(cols) == "public_key" \in cols

\* The ALTER TABLE statements of migrateV2 from the i-th on, each committed
\* by itself; ADD COLUMN fails on a column the table has.
RECURSIVE AddColumns(_, _, _)
AddColumns(f, i, fault) ==
    IF i > Len(V2Columns) THEN [err |-> NoError, file |-> f]
    ELSE IF fault = V2Columns[i] THEN [err |-> ErrMigrate, file |-> f]
    ELSE IF V2Columns[i] \in f.columns THEN [err |-> ErrDuplicateColumn, file |-> f]
    ELSE AddColumns([f EXCEPT !.columns = @ \cup {V2Columns[i]}], i + 1, fault)

migrateV2(f, fault) ==
    IF fault = "table_info" THEN [err |-> ErrMigrate, file |-> f]
    ELSE IF HasColumn(f.columns) THEN [err |-> NoError, file |-> f]
    ELSE LET a == AddColumns(f, 1, fault)
         IN  IF a.err # NoError THEN a
             ELSE IF fault = "rotations"
             THEN [err |-> ErrMigrateRotations, file |-> a.file]
             ELSE [err |-> NoError, file |-> [a.file EXCEPT !.hasRotations = TRUE]]

\* loadOrCreateSalt; fresh is what rand.Read fills the new salt with.
loadOrCreateSalt(f, fault, fresh) ==
    IF fault # "salt read" /\ f.salt # Nil /\ Len(f.salt[1]) = saltLen
    THEN [err |-> NoError, salt |-> f.salt[1], file |-> f]
    ELSE IF fault = "salt write"
    THEN [err |-> ErrSalt, salt |-> fresh, file |-> f]
    ELSE [err |-> NoError, salt |-> fresh, file |-> [f EXCEPT !.salt = Some(fresh)]]

\* NewDatabase: the error it returns, the file it leaves, the key of the
\* handle it returns.
NewDatabaseResult(f, password, fault, fresh) ==
    LET sc == SchemaExec(f, password, fault)
        mg == migrateV2(sc.file, fault)
        ls == loadOrCreateSalt(mg.file, fault, fresh)
    IN  IF sc.err # NoError THEN [err |-> sc.err, file |-> sc.file, key |-> ZeroKey]
        ELSE IF mg.err # NoError THEN [err |-> mg.err, file |-> mg.file, key |-> ZeroKey]
        ELSE IF ls.err # NoError THEN [err |-> ls.err, file |-> ls.file, key |-> ZeroKey]
        ELSE [err |-> NoError, file |-> ls.file, key |-> deriveKey(password, ls.salt)]

TheFile == File(vaultPassword, columns, hasRotations, salt)

\* The salts rand.Read can produce: any but the one the file holds.
FreshSalts == {SaltOf(b) : b \in SaltBytes} \ (IF salt = Nil THEN {} ELSE {salt[1]})

\* A process opens the vault file.
NewDatabase(password, fault, fresh) ==
    /\ ~dbOpen
    /\ \E r \in {NewDatabaseResult(TheFile, password, fault, fresh)} :
          /\ vaultPassword' = r.file.vaultPassword
          /\ columns' = r.file.columns
          /\ hasRotations' = r.file.hasRotations
          /\ salt' = r.file.salt
          /\ opened' = [password |-> password, err |-> r.err]
          /\ key' = r.key
          /\ dbOpen' = (r.err = NoError)
          /\ last' = IF r.err = NoError THEN Called("NewDatabase", "") ELSE last
    /\ UNCHANGED <<credentials, rotations, clock, mu, callers, cmd, aside, screen>>

\* A vault file written before migrateV2 existed: the first schema, the
\* salt, a credential sealed under the key of MasterPassword.
LegacyRow ==
    CredentialRow(1, "a", encrypt(deriveKey(MasterPassword, VaultSalt), 1, "sk-1"),
                  "openai", 1)
LegacyFile == File(Some(MasterPassword), V1Columns, FALSE, Some(VaultSalt))
NoFile == File(Nil, {}, FALSE, Nil)

FileIs(f) ==
    /\ vaultPassword = f.vaultPassword
    /\ columns = f.columns
    /\ hasRotations = f.hasRotations
    /\ salt = f.salt

\* No process has the vault open; there is no file yet, or a legacy one.
InitOpen ==
    /\ \/ /\ FileIs(NoFile)
          /\ credentials = [n \in {} |-> Nil]
       \/ /\ FileIs(LegacyFile)
          /\ credentials = [n \in {"a"} |-> LegacyRow]
    /\ rotations = <<>>
    /\ key = ZeroKey
    /\ dbOpen = FALSE
    /\ clock = 1
    /\ last = Called("", "")
    /\ opened = [password |-> "", err |-> NoError]
    /\ Quiet

\* The handlers that use the columns of the first schema only.
NextOpen ==
    \/ \E password \in Passwords, fault \in OpenFaults, fresh \in FreshSalts :
          NewDatabase(password, fault, fresh)
    \/ dbOpen /\ Close
    \/ \E in \in AddInputs : AddCredential(in[1], in[2], in[3], 1)
    \/ \E n \in Names : GetCredential(n)
    \/ \E n \in Names : DeleteCredential(n)

SpecOpen == InitOpen /\ [][NextOpen]_vars

\* ------------------------------------------------------------------ C12
\* The goroutines inside the critical section of a handler.
Inside == {p \in DOMAIN callers : callers[p].at = "in"}

\* C12: whenever two goroutines are inside critical sections of handlers at
\* the same time, both handlers are reads (GetCredential, GetCredentialV2,
\* ListCredentials, GetRotationHistory); a write (AddCredential,
\* AddCredentialV2, DeleteCredential, RotateCredential, Close) is inside
\* alone.
ReadersWriterExclusion ==
    \A p, q \in Inside :
        p # q => callers[p].op \in Reads /\ callers[q].op \in Reads

\* Two reads are inside their critical sections at the same time.
TwoReadersInside ==
    /\ callers["p1"] = [op |-> "GetCredential", at |-> "in"]
    /\ callers["p2"] = [op |-> "GetRotationHistory", at |-> "in"]
    /\ mu.readers = {"p1", "p2"}

\* ------------------------------------------------------------------ C13
\* C13: while the rotate command's call of plugin.Rotate is in progress the
\* command holds d.mu in neither mode and is inside no handler: the read lock
\* of GetCredentialV2 is released before the call starts, and the write lock
\* of RotateCredential is asked for only after it has returned.
RotateHoldsNoLock ==
    cmd.pc = "rotate" =>
        /\ RotateCmd \notin mu.readers
        /\ mu.writer # RotateCmd
        /\ callers[RotateCmd] = Idle

\* Another goroutine deletes under the write lock while plugin.Rotate is in
\* progress.
WriterInsideDuringRotate ==
    /\ cmd.pc = "rotate"
    /\ callers[Other] = [op |-> "DeleteCredential", at |-> "in"]
    /\ mu.writer = Other

\* ------------------------------------------------------------------ C14
\* Why a run of the command on the vault as it was at its start has to fail:
\* the credential cannot be loaded, no plugin is registered for its type,
\* the plugin rejects it, or plugin.Rotate returned an error.
FailureCause(c) ==
    LET r == GetCredentialV2Result(c.before.credentials,
                                   deriveKey(MasterPassword, VaultSalt), TRUE, c.name)
        g == RegistryGet(r.out.APIType)
    IN  IF r.err # NoError THEN ErrCredential
        ELSE IF ~g.ok THEN ErrNoPlugin
        ELSE IF PluginValidate(g.plugin, CredentialInfo(r.out)) # NoError
        THEN ErrValidation
        ELSE IF c.pluginErr # NoError THEN ErrRotate
        ELSE NoError

\* C14: a run of the rotate command that fails because the credential cannot
\* be loaded, no plugin is registered for its type, plugin.Validate rejects
\* it or plugin.Rotate returns an error never calls RotateCredential, leaves
\* both tables as they were when it started, and returns that error.
FailedRotationChangesNothing ==
    (cmd.pc # "idle" /\ FailureCause(cmd) # NoError) =>
        /\ cmd.saves = 0
        /\ Tables(credentials, rotations) = cmd.before
        /\ cmd.pc = "done" => cmd.err = FailureCause(cmd)

\* The command has returned the error of plugin.Rotate for a stored
\* credential its plugin accepted.
RotateErrorReturned ==
    /\ cmd.pc = "done"
    /\ cmd.err = ErrRotate
    /\ cmd.name \in DOMAIN credentials
    /\ cmd.calls = 1

\* ------------------------------------------------------------------ C15
\* C15: when ctx was done before plugin.Rotate returned, the command does not
\* go on to RotateCredential, whatever the plugin returned, and it has called
\* plugin.Rotate once only.
ExpiredRotationNeverSaved ==
    cmd.late => cmd.pc # "save" /\ cmd.saves = 0 /\ cmd.calls = 1

\* ------------------------------------------------------------------ C16
\* The store has every column of the flexible model and the rotations table.
Migrated == columns = AllColumns /\ hasRotations

\* C16: a call of NewDatabase never changes a row of credentials or
\* rotations; on a migrated store it leaves the schema as it is, and with the
\* vault's password and no failing statement it succeeds; on a legacy store,
\* with the vault's password and no failing statement, it migrates the
\* schema and every credential still opens under the handle's key.
MigrationIdempotent ==
    [][\A password \in Passwords, fault \in OpenFaults, fresh \in FreshSalts :
          NewDatabase(password, fault, fresh) =>
             /\ credentials' = credentials
             /\ rotations' = rotations
             /\ Migrated => /\ columns' = columns
                            /\ hasRotations'
                            /\ (password = vaultPassword[1] /\ fault = "none") => dbOpen'
             /\ (FileIs(LegacyFile) /\ password = MasterPassword /\ fault = "none") =>
                    /\ dbOpen'
                    /\ columns' = AllColumns
                    /\ hasRotations'
                    /\ \A n \in DOMAIN credentials :
                          GetCredentialResult(credentials', key', TRUE, n).err = NoError
      ]_vars

\* The migrated legacy vault, to which an earlier handle added b, is open
\* once more and still holds the legacy credential.
MigratedStoreReopened ==
    /\ dbOpen
    /\ last = Called("NewDatabase", "")
    /\ Migrated
    /\ DOMAIN credentials = {"a", "b"}
    /\ credentials["a"] = LegacyRow
    /\ Get("a").err = NoError

\* ------------------------------------------------------------------ C17
\* A migration stopped part-way: some but not all of what migrateV2 adds.
PartlyMigrated ==
    /\ columns # V1Columns
    /\ V1Columns \subseteq columns
    /\ ~Migrated

\* C17: on a store a failed migration left part-way, NewDatabase with the
\* vault's password and no failing statement succeeds and leaves the store
\* with every column of the flexible model and the rotations table.
RetriedMigrationCompletes ==
    [][\A fresh \in FreshSalts :
          (PartlyMigrated /\ NewDatabase(vaultPassword[1], "none", fresh)) =>
              dbOpen' /\ columns' = AllColumns /\ hasRotations'
      ]_vars

\* ------------------------------------------------------------------ C18
\* C18: whenever a handle returned by NewDatabase is open, the credentials
\* table has environment, public_key, url, config, key_id and last_rotated,
\* and the rotations table exists.
ServedStoreIsMigrated == dbOpen => Migrated

\* ------------------------------------------------------------------ C19
\* C19: once the config table holds a salt, no open, close or other call
\* changes it.
SaltNeverChanges == [][salt # Nil => salt' = salt]_vars

Unzeroed(k) == {i \in DOMAIN k : k[i] # 0}

\* d.db.Close() is called whatever the key holds.
CloseReadyAlways(k) == TRUE

\* The loop over d.key has run to its end.
CloseReady(k) == Unzeroed(k) = {}

\* d.key[i] = 0 for the next byte of the loop.
ZeroKeyByte(p) ==
    /\ callers[p] = [op |-> "Close", at |-> "in"]
    /\ Unzeroed(key) # {}
    /\ \E i \in Unzeroed(key) :
          /\ \A j \in Unzeroed(key) : i <= j
          /\ key' = [key EXCEPT ![i] = 0]
    /\ UNCHANGED <<credentials, rotations, dbOpen, clock, last, fileVars, aside, screen, mu,
                   callers, cmd>>

\* return d.db.Close(), and the deferred d.mu.Unlock().
CloseHandle(p) ==
    /\ callers[p] = [op |-> "Close", at |-> "in"]
    /\ CloseReady(key)
    /\ dbOpen' = FALSE
    /\ last' = Called("Close", "")
    /\ mu' = Release(mu, p, "Close")
    /\ callers' = [callers EXCEPT ![p] = Idle]
    /\ UNCHANGED <<credentials, rotations, key, clock, fileVars, aside, screen, cmd>>

\* The handlers a goroutine calls beside a Close.
CloseHandlers ==
    {"Close", "GetCredential", "GetCredentialV2", "AddCredential", "RotateCredential"}

NextClose ==
    \/ \E p \in Procs, op \in CloseHandlers : Call(p, op)
    \/ \E p \in Procs : AcquireRead(p)
    \/ \E p \in Procs : AnnounceWrite(p)
    \/ \E p \in Procs : AcquireWrite(p)
    \/ \E p \in Procs : callers[p].op # "Close" /\ Return(p)
    \/ \E p \in Procs : ZeroKeyByte(p)
    \/ \E p \in Procs : CloseHandle(p)

SpecClose == Init /\ [][NextClose]_vars

\* ------------------------------------------------------------------ C21
\* C21: the database handle is released only when every byte of the key is
\* zero, and while the key is partly overwritten the only goroutine inside a
\* critical section is the one running Close.
KeyZeroedBeforeRelease ==
    /\ ~dbOpen => key = ZeroKey
    /\ (key # ZeroKey /\ key # deriveKey(MasterPassword, VaultSalt)) =>
          \A p \in Inside : callers[p].op = "Close"

\* Close has overwritten the first bytes of the key while a GetCredential
\* waits for the lock.
KeyPartlyZeroedWhileGetWaits ==
    /\ callers["p1"] = [op |-> "Close", at |-> "in"]
    /\ key[1] = 0
    /\ key[argonKeyLen] # 0
    /\ dbOpen
    /\ callers["p2"] = [op |-> "GetCredential", at |-> "waiting"]

\* ------------------------------------------------------------------ C22
\* The keys a handle can hold: those argon2 derives, and the zeroed one.
Keys == {deriveKey(p, SaltOf(b)) : p \in Passwords, b \in SaltBytes} \cup {ZeroKey}

\* A blob with its i-th byte altered: a byte of the nonce, or a byte of the
\* ciphertext and tag, which then authenticates under no key.
Altered(blob, i) ==
    IF i <= nonceLen THEN [blob EXCEPT ![i] = @ + 1]
    ELSE [blob EXCEPT ![i] = [@ EXCEPT !.key = <<>>]]

\* The first n bytes of a blob.
Truncated(blob, n) == SubSeq(blob, 1, n)

\* What was sealed into a blob, and under which key.
SealedUnder(blob) == blob[Len(blob)].key
SealedText(blob) == blob[Len(blob)].pt

\* C22: for every stored blob and every key, decrypt returns the sealed
\* plaintext and no error under the key the blob was sealed with, and
\* ErrDecryptFail and no plaintext under any other key, for the blob with any
\* one byte altered, and for the blob cut short.
DecryptExactOrFail ==
    \A n \in DOMAIN credentials : \A blob \in {credentials[n].api_key} :
        \A k \in Keys :
            /\ decrypt(k, blob) =
                  IF k = SealedUnder(blob)
                  THEN [err |-> NoError, plain |-> SealedText(blob)]
                  ELSE [err |-> ErrDecryptFail, plain |-> ""]
            /\ \A i \in 1..Len(blob) :
                  decrypt(k, Altered(blob, i)) = [err |-> ErrDecryptFail, plain |-> ""]
            /\ \A m \in 0..(Len(blob) - 1) :
                  decrypt(k, Truncated(blob, m)) = [err |-> ErrDecryptFail, plain |-> ""]

\* The open handle holds another key than the one a stored secret was sealed
\* under, and GetCredential fails on it with ErrDecryptFail.
StoredUnderAnotherKey ==
    /\ dbOpen
    /\ "a" \in DOMAIN credentials
    /\ SealedUnder(credentials["a"].api_key) # key
    /\ Get("a") = [err |-> ErrDecryptFail, out |-> ""]

\* ------------------------------------------------------------ the Registry
\* Register, Get and List of rotation.Registry, each split at its lock and
\* its deferred unlock, called by two goroutines on a registry that starts
\* empty.

RegOps == {"Register", "Get", "List"}
LookupNames == {"openai", "supabase", "generic"}
RegArgs(op) ==
    IF op = "Register" THEN PluginObjects
    ELSE IF op = "Get" THEN LookupNames
    ELSE {""}

\* p, ok := r.plugins[name]
Lookup(plugins, name) ==
    IF name \in DOMAIN plugins THEN [plugin |-> plugins[name], ok |-> TRUE]
    ELSE [plugin |-> NoPlugin, ok |-> FALSE]

\* The slices List can return: the keys of r.plugins, each appended once, in
\* the order the range over the map happens to take.
Listings(plugins) ==
    {l \in [1..Cardinality(DOMAIN plugins) -> DOMAIN plugins] :
        \A i, j \in DOMAIN l : l[i] = l[j] => i = j}

RegCall(g, op, arg) ==
    /\ regCalls[g].at = "idle"
    /\ regCalls' = [regCalls EXCEPT ![g] = [RegIdle EXCEPT !.op = op, !.arg = arg,
                                                            !.at = "waiting"]]
    /\ UNCHANGED <<storeVars, fileVars, mu, callers, cmd, screen, registry, registered>>

\* r.mu.RLock() returns.
RegAcquireRead(g) ==
    /\ regCalls[g].at = "waiting"
    /\ regCalls[g].op \in {"Get", "List"}
    /\ registry.mu.writer = ""
    /\ registry' = [registry EXCEPT !.mu = RLock(@, g)]
    /\ regCalls' = [regCalls EXCEPT ![g].at = "in"]
    /\ UNCHANGED <<storeVars, fileVars, mu, callers, cmd, screen, registered>>

\* r.mu.Lock() has announced the writer.
RegAnnounceWrite(g) ==
    /\ regCalls[g].at = "waiting"
    /\ regCalls[g].op = "Register"
    /\ registry.mu.writer = ""
    /\ registry' = [registry EXCEPT !.mu = LockAnnounced(@, g)]
    /\ regCalls' = [regCalls EXCEPT ![g].at = "draining"]
    /\ UNCHANGED <<storeVars, fileVars, mu, callers, cmd, screen, registered>>

\* r.mu.Lock() returns.
RegAcquireWrite(g) ==
    /\ regCalls[g].at = "draining"
    /\ registry.mu.readers = {}
    /\ regCalls' = [regCalls EXCEPT ![g].at = "in"]
    /\ UNCHANGED <<storeVars, fileVars, mu, callers, cmd, screen, registry, registered>>

\* Register stores the plugin under its name and unlocks.
RegisterReturn(g) ==
    /\ regCalls[g].at = "in"
    /\ regCalls[g].op = "Register"
    /\ registry' = [plugins |-> RegisterPlugin(registry.plugins, regCalls[g].arg),
                    mu |-> Unlock(registry.mu, g)]
    /\ registered' = registered \cup {regCalls[g].arg}
    /\ regCalls' = [regCalls EXCEPT ![g].at = "idle"]
    /\ UNCHANGED <<storeVars, fileVars, mu, callers, cmd, screen>>

\* Get reads the map and unlocks; out.seen is what had been registered.
GetReturn(g) ==
    /\ regCalls[g].at = "in"
    /\ regCalls[g].op = "Get"
    /\ \E r \in {Lookup(registry.plugins, regCalls[g].arg)} :
          regCalls' = [regCalls EXCEPT ![g].at = "idle", ![g].out.plugin = r.plugin,
                                       ![g].out.ok = r.ok, ![g].out.seen = registered]
    /\ registry' = [registry EXCEPT !.mu = RUnlock(@, g)]
    /\ UNCHANGED <<storeVars, fileVars, mu, callers, cmd, screen, registered>>

\* List ranges over the map and unlocks.
ListReturn(g) ==
    /\ regCalls[g].at = "in"
    /\ regCalls[g].op = "List"
    /\ \E l \in Listings(registry.plugins) :
          regCalls' = [regCalls EXCEPT ![g].at = "idle", ![g].out.list = l,
                                       ![g].out.seen = registered]
    /\ registry' = [registry EXCEPT !.mu = RUnlock(@, g)]
    /\ UNCHANGED <<storeVars, fileVars, mu, callers, cmd, screen, registered>>

\* The registry as NewRegistry leaves it, before any init function has run.
InitRegistry ==
    /\ credentials = [n \in {} |-> Nil]
    /\ rotations = <<>>
    /\ key = ZeroKey
    /\ dbOpen = FALSE
    /\ clock = 1
    /\ last = Called("", "")
    /\ FileIs(NoFile)
    /\ opened = [password |-> "", err |-> NoError]
    /\ mu = MuFree
    /\ callers = [p \in Procs \cup {RotateCmd} |-> Idle]
    /\ cmd = CmdIdle
    /\ registry = NewRegistry
    /\ registered = {}
    /\ regCalls = [g \in Goroutines |-> RegIdle]
    /\ tui = NoScreen

NextRegistry ==
    \/ \E g \in Goroutines, op \in RegOps : \E arg \in RegArgs(op) : RegCall(g, op, arg)
    \/ \E g \in Goroutines : RegAcquireRead(g)
    \/ \E g \in Goroutines : RegAnnounceWrite(g)
    \/ \E g \in Goroutines : RegAcquireWrite(g)
    \/ \E g \in Goroutines : RegisterReturn(g)
    \/ \E g \in Goroutines : GetReturn(g)
    \/ \E g \in Goroutines : ListReturn(g)

SpecRegistry == InitRegistry /\ [][NextRegistry]_vars

\* ------------------------------------------------------------------ C23
\* The names under which a set of plugins call themselves.
NamesOf(ps) == {p.name : p \in ps}

\* C23: a Register is inside its critical section alone; a Get(n) that has
\* returned found a plugin exactly if a plugin named n had been registered,
\* and the plugin it found calls itself n; a List that has returned holds
\* exactly the names that had been registered, each once.
RegistryLookupExact ==
    /\ \A g, h \in Goroutines :
          (g # h /\ regCalls[g].at = "in" /\ regCalls[h].at = "in") =>
              regCalls[g].op # "Register" /\ regCalls[h].op # "Register"
    /\ \A g \in Goroutines : \A c \in {regCalls[g]} :
          /\ (c.at = "idle" /\ c.op = "Get") =>
                /\ c.out.ok <=> c.arg \in NamesOf(c.out.seen)
                /\ c.out.ok => c.out.plugin.name = c.arg
                /\ ~c.out.ok => c.out.plugin = NoPlugin
          /\ (c.at = "idle" /\ c.op = "List") =>
                /\ {c.out.list[i] : i \in DOMAIN c.out.list} = NamesOf(c.out.seen)
                /\ Len(c.out.list) = Cardinality(NamesOf(c.out.seen))

\* After openai was registered twice and supabase once, a Get of openai has
\* found a plugin while a List has returned both names.
LookupAfterReRegistration ==
    /\ registered = PluginObjects
    /\ regCalls["g1"].op = "Get" /\ regCalls["g1"].arg = "openai"
    /\ regCalls["g1"].at = "idle" /\ regCalls["g1"].out.ok
    /\ regCalls["g2"].op = "List" /\ regCalls["g2"].at = "idle"
    /\ Len(regCalls["g2"].out.list) = Cardinality(InitPlugins)
    /\ regCalls["g2"].out.seen = PluginObjects

\* -------------------------------------------- the store over several rotations
\* The handlers on a store that takes up to MaxHistory rotations: a legacy
\* credential b, a flexible credential a with every field or with a public
\* key only, the outcomes of RotationInputs that set a field or set nothing,
\* a rotation that fails at its first statement.

AuditAdds == {<<"b", "sk-1", "openai">>}
AuditCredentials ==
    {c \in CredentialInputs : c.Name = "a" /\ c.PublicKey # Nil}
AuditRotations ==
    {in \in RotationInputs : in.result.NewSecretKey # Some("")}
AuditFaults == {0, 1}

NextAudit ==
    \/ \E in \in AuditAdds : AddCredential(in[1], in[2], in[3], 1)
    \/ \E cred \in AuditCredentials : AddCredentialV2(cred, 1, 1)
    \/ \E name \in Names : GetCredential(name)
    \/ \E name \in Names : GetCredentialV2(name)
    \/ \E name \in Names : DeleteCredential(name)
    \/ \E in \in AuditRotations, fault \in AuditFaults :
          /\ Len(rotations) < MaxHistory
          /\ RotateCredentialCall(in.name, in.result, in.plugin, "cli", 1, 1, fault)
    \/ \E name \in Names : GetRotationHistory(name, MaxHistory)
    \/ Tick

SpecAudit == Init /\ [][NextAudit]_vars

\* ------------------------------------------------------------------ C24
\* C24: a credential that appears in the table carries the time of the add
\* as created_at and as updated_at; a write that changes a stored credential
\* leaves created_at alone and sets updated_at to the time of the write; so
\* created_at <= updated_at <= the clock in every state.
TimestampsFollowWrites ==
    /\ [](\A n \in DOMAIN credentials :
             /\ credentials[n].created_at <= credentials[n].updated_at
             /\ credentials[n].updated_at <= clock)
    /\ [][\A n \in DOMAIN credentials' :
             IF n \notin DOMAIN credentials
             THEN /\ credentials'[n].created_at = clock
                  /\ credentials'[n].updated_at = clock
             ELSE /\ credentials'[n].created_at = credentials[n].created_at
                  /\ credentials'[n] # credentials[n] =>
                        credentials'[n].updated_at = clock
         ]_vars

\* A credential added in the first second was rotated in the second one.
RotatedLaterThanAdded ==
    /\ "a" \in DOMAIN credentials
    /\ credentials["a"].created_at = 1
    /\ credentials["a"].updated_at = 2
    /\ credentials["a"].last_rotated = Some(2)
    /\ last = Called("RotateCredential", "a")

\* ------------------------------------------------------------------ C25
\* The rotations table with the records of the credential name removed.
WithoutRecordsOf(rots, name) == SelectSeq(rots, LAMBDA r : r.credential_name # name)

\* C25: in every state, a call of RotateCredential that returns no error
\* leaves the rotations table with exactly one record more, a record of the
\* credential it names, after the records there were, and one that returns
\* an error leaves both tables as they were; every step leaves the records
\* already written as they are, except that a DeleteCredential may remove
\* those of the credential it deletes.
HistoryAppendOnly ==
    /\ [](\A in \in AuditRotations, fault \in AuditFaults :
             \E r \in {RotateCredentialResult(in.name, in.result, in.plugin, "cli",
                                              1, 1, fault)} :
                IF r.err = NoError
                THEN /\ Len(r.rotations) = Len(rotations) + 1
                     /\ SubSeq(r.rotations, 1, Len(rotations)) = rotations
                     /\ r.rotations[Len(r.rotations)].credential_name = in.name
                ELSE r.rotations = rotations /\ r.credentials = credentials)
    /\ [][\/ rotations' = rotations
          \/ /\ Len(rotations') = Len(rotations) + 1
             /\ SubSeq(rotations', 1, Len(rotations)) = rotations
          \/ \E n \in Names :
                /\ n \in DOMAIN credentials
                /\ n \notin DOMAIN credentials'
                /\ rotations' = WithoutRecordsOf(rotations, n)
         ]_vars

\* Two rotations of a with the same outcome in the same second have left two
\* records that differ in their id alone.
SameRotationTwiceRecorded ==
    /\ Len(rotations) = 2
    /\ rotations[1].credential_name = "a"
    /\ rotations[1].id # rotations[2].id
    /\ [rotations[1] EXCEPT !.id = 0] = [rotations[2] EXCEPT !.id = 0]
    /\ rotations[1].rotated_fields = MarshalFields(<<"secret_key">>)

IsSealed(blob) ==
    /\ Len(blob) = nonceLen + 1
    /\ blob = encryptWith(key, blob[1], SealedText(blob))

StoredCredentialsAlwaysRead ==
    dbOpen => \A n \in DOMAIN credentials :
                  /\ Get(n).err = NoError
                  /\ GetV2(n).err = NoError

\* ------------------------------------------------------------------ C29
\* C29: whatever GetRotationHistory(name, limit) returns for a stored
\* credential name and a limit of zero or more has at most limit records, all of them records of name, ordered
\* from the rotation committed last to the one committed first: its i-th
\* record is the i-th last row of name in the rotations table.
HistoryLatestFirst ==
    \A n \in DOMAIN credentials, limit \in 0..MaxHistory :
        \A h \in History(n, limit) :
            \E rows \in {RotationsOf(rotations, n)} :
                /\ Len(h) <= limit
                /\ Len(h) <= Len(rows)
                /\ \A i \in 1..Len(h) : h[i] = ScanRotation(rows[Len(rows) + 1 - i])

\* ------------------------------------------------------------------ C30
\* C30: right after a RotateCredential of a stored credential has returned
\* without error, the KeyID that GetCredentialV2 returns for it (empty when
\* nil) is the NewKeyID of the record that rotation wrote, the last row of
\* that name in the rotations table.
KeyIDMatchesLastRecord ==
    \A n \in DOMAIN credentials :
        last = Called("RotateCredential", n) =>
            \E rows \in {RotationsOf(rotations, n)} :
                /\ Len(rows) > 0
                /\ GetV2(n).err = NoError
                /\ NullString(GetV2(n).out.KeyID) = ScanRotation(rows[Len(rows)]).NewKeyID

\* ------------------------------------------------------------------ C31
\* C31: in every state, the last_rotated of a stored credential is set if and
\* only if the rotations table holds a record of its name, and when set it is
\* the rotated_at of the record of that name written last.
LastRotatedMatchesHistory ==
    \A n \in DOMAIN credentials :
        \E rows \in {RotationsOf(rotations, n)} :
            /\ credentials[n].last_rotated # Nil <=> Len(rows) > 0
            /\ Len(rows) > 0 =>
                  credentials[n].last_rotated = Some(rows[Len(rows)].rotated_at)

\* ------------------------------------------------------------------ C32
\* A credential shaped for its provider: an openai credential with a secret,
\* a supabase credential with a URL and at least one key.
ShapedForProvider(cred) ==
    \/ /\ cred.APIType = "openai"
       /\ cred.SecretKey # Nil /\ cred.SecretKey # Some("")
    \/ /\ cred.APIType = "supabase"
       /\ cred.URL # Nil /\ cred.URL # Some("")
       /\ \/ cred.SecretKey # Nil /\ cred.SecretKey # Some("")
          \/ cred.PublicKey # Nil /\ cred.PublicKey # Some("")

\* C32: whenever the rotate command has called plugin.Rotate or
\* RotateCredential, or is in one of these calls, its plugin is the one
\* registered under the APIType of the credential it loaded and that
\* credential is shaped for the provider; and plugin.Rotate is called in a
\* step that starts at the return of plugin.Validate, RotateCredential only
\* after plugin.Rotate.
RotateOnlyAfterValidate ==
    /\ [](cmd.pc \in {"rotate", "save"} \/ cmd.calls > 0 \/ cmd.saves > 0 =>
             /\ RegistryGet(cmd.cred.APIType) = [plugin |-> cmd.plugin, ok |-> TRUE]
             /\ ShapedForProvider(cmd.cred)
             /\ cmd.saves <= cmd.calls)
    /\ [][cmd'.calls > cmd.calls =>
             /\ cmd.pc = "validate"
             /\ cmd'.pc = "rotate"
             /\ ShapedForProvider(cmd.cred)]_vars

\* The command has ended on a supabase credential without a URL: Validate
\* rejected it, and neither plugin.Rotate nor RotateCredential was called.
RejectedNeverRotated ==
    /\ cmd.pc = "done"
    /\ cmd.cred.APIType = "supabase"
    /\ cmd.cred.URL = Nil
    /\ cmd.err = ErrValidation
    /\ cmd.cause = ErrNeedsURL
    /\ cmd.calls = 0
    /\ cmd.saves = 0
    /\ rotations = <<>>

\* ------------------------------------------------------------------ C33
\* The blobs the credentials table holds.
StoredBlobs ==
    {credentials[n].api_key : n \in DOMAIN credentials}
        \cup {credentials[n].public_key[1] :
                 n \in {m \in DOMAIN credentials : credentials[m].public_key # Nil}}

\* C33: in every state after Close, each of AddCredential, AddCredentialV2,
\* GetCredential, GetCredentialV2, ListCredentials, DeleteCredential,
\* RotateCredential and GetRotationHistory returns an error, and the writes
\* among them leave both tables as they are; no step taken after Close
\* changes a table; and no stored blob is ever sealed under the zeroed key.
ClosedStoreRefusesAll ==
    /\ [](~dbOpen =>
             /\ \A in \in AddInputs :
                   \E r \in {AddCredentialResult(in[1], in[2], in[3], 1)} :
                      r.err # NoError /\ r.credentials = credentials
             /\ \A cred \in CredentialInputs :
                   \E r \in {AddCredentialV2Result(cred, 1, 1)} :
                      r.err # NoError /\ r.credentials = credentials
             /\ \A n \in Names :
                   /\ Get(n).err # NoError
                   /\ GetV2(n).err # NoError
                   /\ \E r \in {DeleteCredentialResult(n)} :
                         /\ r.err # NoError
                         /\ r.credentials = credentials
                         /\ r.rotations = rotations
                   /\ \A limit \in AnyLimit :
                         \A r \in GetRotationHistoryResult(rotations, dbOpen, n, limit) :
                            r.err # NoError
             /\ ListCredentialsResult(credentials, dbOpen).err # NoError
             /\ \A in \in RotationInputs : \A fault \in FaultPoints(in.result) :
                   \E r \in {RotateCredentialResult(in.name, in.result, in.plugin,
                                                    "cli", 1, 1, fault)} :
                      /\ r.err # NoError
                      /\ r.credentials = credentials
                      /\ r.rotations = rotations)
    /\ [](\A blob \in StoredBlobs : Len(blob) > 0 => SealedUnder(blob) # ZeroKey)
    /\ [][~dbOpen => credentials' = credentials /\ rotations' = rotations]_vars

\* The vault was closed with a rotated credential in it: the key is zeroed,
\* the handle released, both tables hold what they held.
ClosedWithStoredData ==
    /\ ~dbOpen
    /\ key = ZeroKey
    /\ last = Called("Close", "")
    /\ "a" \in DOMAIN credentials
    /\ Len(rotations) = 1
    /\ rotations[1].credential_name = "a"

\* --------------------------------------------------------- the setup wizard
\* setupModel of cmd/setup.go: Update and handleEnter as functions of the
\* model and the key pressed, with what the call of AddCredential leaves in
\* the credentials table.

\* The keys a user presses: msg.String() of a tea.KeyMsg.  A key of one
\* character is typed into the text at hand unless the program binds it.
TypedChars == {"p"}
KeyMsgs ==
    {"up", "down", "k", "j", "enter", "esc", "backspace", "ctrl+c", "q", "a", "d"}
        \cup TypedChars

ErrAccountEmpty == "account name cannot be empty"
ErrKeyEmpty == "API key cannot be empty"
ErrFailedToSave(err) == "failed to save: " \o err

\* m.accountName[:len(m.accountName)-1]
DropLast(s) == SubSeq(s, 1, Len(s) - 1)

\* fmt.Sprintf("%s-%s", strings.ToLower(service), m.accountName)
CredentialName(m) ==
    ToLower(serviceTemplates[m.selectedService + 1]) \o "-" \o m.accountName

\* What a call of Update hands back: the model, whether it returned
\* tea.Quit, the credentials table, and the name AddCredential stored.
Shown(m) == [m |-> m, quit |-> FALSE, credentials |-> credentials, added |-> Nil]

\* An Enter that takes whatever has been typed: no check for an empty text.
handleEnterUnchecked(m) ==
    IF m.step = 0 THEN Shown([m EXCEPT !.step = 1])
    ELSE IF m.step = 1 THEN Shown([m EXCEPT !.step = 2, !.err = NoError])
    ELSE IF m.step = 2
    THEN LET r == AddCredentialResult(
                      CredentialName(m), m.apiKey,
                      ToLower(serviceTemplates[m.selectedService + 1]), 1)
         IN  IF r.err # NoError
             THEN [Shown([m EXCEPT !.err = ErrFailedToSave(r.err)])
                      EXCEPT !.credentials = r.credentials]
             ELSE [m |-> [m EXCEPT !.done = TRUE, !.err = NoError],
                   quit |-> FALSE, credentials |-> r.credentials,
                   added |-> Some(CredentialName(m))]
    ELSE Shown(m)

\* setupModel.handleEnter
handleEnter(m) ==
    IF m.step = 0 THEN Shown([m EXCEPT !.step = 1])
    ELSE IF m.step = 1
    THEN IF m.accountName = "" THEN Shown([m EXCEPT !.err = ErrAccountEmpty])
         ELSE Shown([m EXCEPT !.step = 2, !.err = NoError])
    ELSE IF m.step = 2
    THEN IF m.apiKey = "" THEN Shown([m EXCEPT !.err = ErrKeyEmpty])
         ELSE LET r == AddCredentialResult(
                           CredentialName(m), m.apiKey,
                           ToLower(serviceTemplates[m.selectedService + 1]), 1)
              IN  IF r.err # NoError
                  THEN [Shown([m EXCEPT !.err = ErrFailedToSave(r.err)])
                           EXCEPT !.credentials = r.credentials]
                  ELSE [m |-> [m EXCEPT !.done = TRUE, !.err = NoError],
                        quit |-> FALSE, credentials |-> r.credentials,
                        added |-> Some(CredentialName(m))]
    ELSE Shown(m)

\* setupModel.Update on a tea.KeyMsg
SetupUpdate(m, k) ==
    IF m.done THEN [Shown(m) EXCEPT !.quit = TRUE]
    ELSE IF k \in {"ctrl+c", "esc"} THEN [Shown(m) EXCEPT !.quit = TRUE]
    ELSE IF k = "enter" THEN handleEnter(m)
    ELSE IF k \in {"up", "k"}
    THEN Shown(IF m.step = 0 /\ m.selectedService > 0
               THEN [m EXCEPT !.selectedService = @ - 1] ELSE m)
    ELSE IF k \in {"down", "j"}
    THEN Shown(IF m.step = 0 /\ m.selectedService < Len(serviceTemplates) - 1
               THEN [m EXCEPT !.selectedService = @ + 1] ELSE m)
    ELSE IF k = "backspace"
    THEN Shown(IF m.step = 1 /\ Len(m.accountName) > 0
               THEN [m EXCEPT !.accountName = DropLast(@)]
               ELSE IF m.step = 2 /\ Len(m.apiKey) > 0
               THEN [m EXCEPT !.apiKey = DropLast(@)]
               ELSE m)
    ELSE IF Len(k) = 1
    THEN Shown(IF m.step = 1 THEN [m EXCEPT !.accountName = @ \o k]
               ELSE IF m.step = 2 THEN [m EXCEPT !.apiKey = @ \o k]
               ELSE m)
    ELSE Shown(m)

\* No text of the wizard is longer than MaxInput.
SetupFits(m) == Len(m.accountName) <= MaxInput /\ Len(m.apiKey) <= MaxInput

\* The setup command shows the wizard on an open vault.
SetupStart ==
    /\ tui.program = ""
    /\ dbOpen
    /\ tui' = [NoScreen EXCEPT !.program = "setup"]
    /\ UNCHANGED <<storeVars, fileVars, mu, callers, cmd, aside>>

\* A key reaches the wizard of the setup command.
SetupKey(k) ==
    /\ tui.program = "setup"
    /\ ~tui.quit
    /\ \E r \in {SetupUpdate(tui.setup, k)} :
          /\ SetupFits(r.m)
          /\ tui' = [tui EXCEPT !.setup = r.m, !.quit = r.quit]
          /\ credentials' = r.credentials
          /\ last' = IF r.added # Nil THEN Called("AddCredential", r.added[1]) ELSE last
    /\ UNCHANGED <<rotations, key, dbOpen, clock, fileVars, mu, callers, cmd, aside>>

\* p.Run() has returned: the deferred db.Close() runs and the command ends.
ProgramExit ==
    /\ tui.program # ""
    /\ tui.quit \/ tui.crashed
    /\ dbOpen
    /\ key' = [i \in DOMAIN key |-> 0]
    /\ dbOpen' = FALSE
    /\ last' = Called("Close", "")
    /\ UNCHANGED <<credentials, rotations, clock, outsideStore>>

\* The vault before the setup command: empty, or holding the credential of
\* an earlier run of the wizard.
SetupAdds == {<<"openai-p", "sk-1", "openai">>}

NextSetup ==
    \/ tui.program = "" /\ \E in \in SetupAdds : AddCredential(in[1], in[2], in[3], 1)
    \/ SetupStart
    \/ \E k \in KeyMsgs : SetupKey(k)
    \/ ProgramExit

SpecSetup == Init /\ [][NextSetup]_vars

\* C35: the wizard of the setup command moves only forward through service
\* selection (0), account name (1), API key (2) and done.  No key lowers the
\* step or leaves done; the step goes from 1 to 2 only with a non-empty
\* account name; done is set only at step 2 with a non-empty key, in the step
\* in which AddCredential stored that key under lower(service)-account, a name
\* not stored before; and a step that does not set done stores nothing.
\* Enter on an empty account name, an empty key or a name already stored
\* leaves the wizard on its step, not done, with its error set and the
\* credentials table as it was.
WizardOnlyForward ==
    /\ [](tui.program = "setup" /\ ~tui.quit /\ ~tui.setup.done =>
            \E r \in {SetupUpdate(tui.setup, "enter")} :
                LET m == tui.setup
                    refused ==
                        \/ m.step = 1 /\ m.accountName = ""
                        \/ m.step = 2 /\ m.apiKey = ""
                        \/ m.step = 2 /\ CredentialName(m) \in DOMAIN credentials
                IN  refused =>
                        /\ r.m.step = m.step
                        /\ ~r.m.done
                        /\ r.m.err # NoError
                        /\ r.credentials = credentials)
    /\ [][tui.program = "setup" /\ tui'.program = "setup" =>
            LET m == tui.setup
                n == tui'.setup
                name == CredentialName(m)
            IN  /\ n.step \in {m.step, m.step + 1}
                /\ m.done => n = m
                /\ m.step = 1 /\ n.step = 2 => m.accountName # ""
                /\ ~m.done /\ n.done =>
                      /\ m.step = 2 /\ n.step = 2
                      /\ m.apiKey # ""
                      /\ name \notin DOMAIN credentials
                      /\ DOMAIN credentials' = DOMAIN credentials \cup {name}
                      /\ \A k \in DOMAIN credentials : credentials'[k] = credentials[k]
                      /\ GetCredentialResult(credentials', key, TRUE, name)
                            = [err |-> NoError, out |-> m.apiKey]
                      /\ credentials'[name].api_type
                            = Some(ToLower(serviceTemplates[m.selectedService + 1]))
                /\ ~(~m.done /\ n.done) => credentials' = credentials]_vars

\* The wizard has saved a second credential next to the one of an earlier
\* run: it is done at step 2 and the name it built is stored.
WizardSavedCredential ==
    /\ tui.program = "setup"
    /\ tui.setup.done
    /\ tui.setup.step = 2
    /\ tui.setup.err = NoError
    /\ tui.setup.selectedService = 1
    /\ CredentialName(tui.setup) = "anthropic-p"
    /\ DOMAIN credentials = {"openai-p", "anthropic-p"}
    /\ last = Called("AddCredential", "anthropic-p")

\* ------------------------------------------------- the interactive list
\* interactiveModel of the list command (frontend/src/App.tsx): Update as a
\* function of the model and the key pressed, with what its calls on the
\* handle leave in the tables.

ErrClipboard == "failed to copy to clipboard"
StatusSaved == "Credential saved"

\* interactiveModel.filteredCredentials
filteredCredentials(m) ==
    IF m.filter = "" THEN m.credentials
    ELSE SelectSeq(m.credentials,
                   LAMBDA c : \/ Contains(ToLower(c.name), ToLower(m.filter))
                              \/ Contains(ToLower(c.apiType), ToLower(m.filter)))

\* interactiveModel.loadCredentials on the table creds: [err, list]
loadCredentials(creds) ==
    LET r == ListCredentialsResult(creds, dbOpen)
    IN  [err |-> r.err,
         list |-> [i \in 1..Len(r.out) |->
                      [name |-> r.out[i].Name, apiType |-> r.out[i].APIType,
                       created |-> r.out[i].CreatedAt]]]

\* What a call of interactiveModel.Update hands back: the model, whether it
\* returned tea.Quit, whether it panicked, both tables, and the call on the
\* handle that succeeded.
Listed(m) ==
    [m |-> m, quit |-> FALSE, crashed |-> FALSE, credentials |-> credentials,
     rotations |-> rotations, called |-> Nil]

\* case "enter": filtered[m.cursor] panics when the cursor is out of range.
ListEnter(m, clip) ==
    LET filtered == filteredCredentials(m)
    IN  IF Len(filtered) = 0 THEN Listed(m)
        ELSE IF m.cursor >= Len(filtered) THEN [Listed(m) EXCEPT !.crashed = TRUE]
        ELSE LET g == GetCredentialResult(credentials, key, dbOpen,
                                          filtered[m.cursor + 1].name)
             IN  IF g.err # NoError THEN Listed([m EXCEPT !.err = g.err])
                 ELSE Listed([m EXCEPT !.err = IF clip # NoError THEN clip ELSE @,
                                       !.viewing = TRUE, !.viewContent = g.out])

\* if m.cursor >= len(m.credentials) && m.cursor > 0 { m.cursor-- }
CursorAfterDelete(m, list) ==
    IF m.cursor >= Len(list) /\ m.cursor > 0 THEN m.cursor - 1 ELSE m.cursor

\* case "d"
ListDelete(m) ==
    LET filtered == filteredCredentials(m)
    IN  IF Len(filtered) = 0 THEN Listed(m)
        ELSE IF m.cursor >= Len(filtered) THEN [Listed(m) EXCEPT !.crashed = TRUE]
        ELSE LET name == filtered[m.cursor + 1].name
                 r == DeleteCredentialResult(name)
                 l == loadCredentials(r.credentials)
                 out == [Listed(m) EXCEPT !.credentials = r.credentials,
                                          !.rotations = r.rotations]
             IN  IF r.err # NoError THEN [out EXCEPT !.m.err = r.err]
                 ELSE IF l.err # NoError
                 THEN [out EXCEPT !.m.err = l.err,
                                  !.called = Some(Called("DeleteCredential", name))]
                 ELSE [out EXCEPT !.m.credentials = l.list,
                                  !.m.cursor = CursorAfterDelete(m, l.list),
                                  !.called = Some(Called("DeleteCredential", name))]

\* interactiveModel.updateAdding
updateAdding(m, k) ==
    IF k = "esc" THEN Listed([m EXCEPT !.adding = FALSE])
    ELSE IF k = "ctrl+c" THEN [Listed(m) EXCEPT !.quit = TRUE]
    ELSE LET u == SetupUpdate(m.setup, k)
             l == loadCredentials(u.credentials)
             out == [Listed([m EXCEPT !.setup = u.m])
                        EXCEPT !.credentials = u.credentials,
                               !.called = IF u.added # Nil
                                          THEN Some(Called("AddCredential", u.added[1]))
                                          ELSE Nil]
         IN  IF ~u.m.done THEN out
             ELSE IF l.err # NoError
             THEN [out EXCEPT !.m.adding = FALSE, !.m.status = StatusSaved,
                              !.m.err = l.err]
             ELSE [out EXCEPT !.m.adding = FALSE, !.m.status = StatusSaved,
                              !.m.credentials = l.list]

\* interactiveModel.updateViewing
updateViewing(m, k) ==
    IF k \in {"ctrl+c", "q", "esc", "enter"}
    THEN Listed([m EXCEPT !.viewing = FALSE, !.viewContent = ""])
    ELSE Listed(m)

\* interactiveModel.Update on a tea.KeyMsg; clip is what clipboard.WriteAll
\* returns.
ListUpdate(m0, k, clip) ==
    IF m0.adding THEN updateAdding(m0, k)
    ELSE IF m0.viewing THEN updateViewing(m0, k)
    ELSE LET m == [m0 EXCEPT !.status = ""]
         IN  IF k \in {"ctrl+c", "q"} THEN [Listed(m) EXCEPT !.quit = TRUE]
             ELSE IF k \in {"up", "k"}
             THEN Listed(IF m.cursor > 0 THEN [m EXCEPT !.cursor = @ - 1] ELSE m)
             ELSE IF k \in {"down", "j"}
             THEN Listed(IF m.cursor < Len(filteredCredentials(m)) - 1
                         THEN [m EXCEPT !.cursor = @ + 1] ELSE m)
             ELSE IF k = "enter" THEN ListEnter(m, clip)
             ELSE IF k = "a"
             THEN Listed([m EXCEPT !.adding = TRUE, !.setup = newSetupModel])
             ELSE IF k = "d" THEN ListDelete(m)
             ELSE IF k = "backspace"
             THEN Listed(IF Len(m.filter) > 0
                         THEN [m EXCEPT !.filter = DropLast(@), !.cursor = 0] ELSE m)
             ELSE IF Len(k) = 1
             THEN Listed([m EXCEPT !.filter = @ \o k, !.cursor = 0])
             ELSE Listed(m)

\* The list command loads the credentials of an open vault and shows them.
ListStart ==
    /\ tui.program = ""
    /\ dbOpen
    /\ \E l \in {loadCredentials(credentials)} :
          /\ l.err = NoError
          /\ tui' = [NoScreen EXCEPT !.program = "list", !.credentials = l.list]
    /\ UNCHANGED <<storeVars, fileVars, mu, callers, cmd, aside>>

\* The key a opens the wizard, when the list is neither adding nor viewing.
OpensWizard(k) == k = "a" /\ ~tui.adding /\ ~tui.viewing

\* A key reaches the list.
ListKey(k, clip) ==
    /\ tui.program = "list"
    /\ ~tui.quit /\ ~tui.crashed
    /\ OpensWizard(k) => tui.wizards < MaxWizards
    /\ \E r \in {ListUpdate(tui, k, clip)} :
          /\ Len(r.m.filter) <= MaxInput
          /\ SetupFits(r.m.setup)
          /\ tui' = [r.m EXCEPT !.quit = r.quit, !.crashed = r.crashed,
                                !.wizards = IF OpensWizard(k) THEN @ + 1 ELSE @]
          /\ credentials' = r.credentials
          /\ rotations' = r.rotations
          /\ last' = IF r.called # Nil THEN r.called[1] ELSE last
    /\ UNCHANGED <<key, dbOpen, clock, fileVars, mu, callers, cmd, aside>>

\* The vault before the list command: what earlier commands added.
ListAdds == {<<"github-x", "sk-1", "github">>, <<"openai-x", "sk-1", "openai">>}

\* What clipboard.WriteAll returns: nil, or an error where no clipboard
\* utility is installed.
ClipboardOutcomes == {NoError, ErrClipboard}

NextList ==
    \/ tui.program = "" /\ \E in \in ListAdds : AddCredential(in[1], in[2], in[3], 1)
    \/ ListStart
    \/ \E k \in KeyMsgs \ {"enter"} : ListKey(k, NoError)
    \/ \E clip \in ClipboardOutcomes : ListKey("enter", clip)
    \/ ProgramExit

SpecList == Init /\ [][NextList]_vars

\* ------------------------------------------------------------------ C34
\* C34: while the list runs, whenever its filtered list is not empty the
\* cursor is an index of it: 0 <= cursor < len(filtered), so that Enter and
\* d never panic.
CursorWithinFiltered ==
    tui.program = "list" =>
        /\ ~tui.crashed
        /\ Len(filteredCredentials(tui)) > 0 =>
              0 <= tui.cursor /\ tui.cursor < Len(filteredCredentials(tui))

====
